---- MODULE Spec2Model ----
(***************************************************************************)
(* A model of the storefront-insights extractor (Jadavivek/deepsolv).      *)
(*                                                                         *)
(* Each component of the program is one variable holding a record: the     *)
(* frame of the call in progress (its locals and its position `pc`).  A    *)
(* component that a specification does not exercise stays at Idle.         *)
(*                                                                         *)
(*   http   HTTPClient.get_page_content / get_json   (utils/http_client)   *)
(*   pipe   ShopifyStoreScraper.extract_insights     (services/scraper)    *)
(*   norm   ShopifyStoreScraper._normalize_url       (services/scraper)    *)
(*   pjson  ProductExtractor._parse_product_json     (services/extractors) *)
(*   hero   ProductExtractor.extract_hero_products   (services/extractors) *)
(*   sim    CompetitorAnalyzer._calculate_similarity (competitor_analyzer) *)
(*   faq    FAQExtractor.extract_faqs                (services/extractors) *)
(*   api    POST /insights/extract                   (api/routes/insights) *)
(*   handle extract_social_handle                    (utils/validators)    *)
(*   social SocialExtractor.extract_social_handles   (services/extractors) *)
(*   links  LinkExtractor.extract_important_links    (services/extractors) *)
(*   llm    LLMProcessor                             (utils/llm_processor) *)
(*   comp   CompetitorAnalyzer.analyze_competitors   (competitor_analyzer) *)
(*   contact ContactExtractor.extract_contact_details (services/extractors)*)
(*   policy  PolicyExtractor._extract_policy         (services/extractors) *)
(*   brand   BrandContextExtractor.extract_brand_context     (extractors)  *)
(*   catalog ProductExtractor.extract_all_products   (services/extractors) *)
(*   gather  asyncio.gather in extract_insights      (services/scraper)    *)
(*   pool    the TCPConnector of each HTTPClient     (utils/http_client)   *)
(*   store   DatabaseService.save / read             (database_service)    *)
(*   finder  CompetitorAnalyzer._find_competitors    (competitor_analyzer) *)
(*   run     one extract_insights, call by call      (services/scraper)    *)
(***************************************************************************)
EXTENDS Integers, Sequences, FiniteSets, TLC

VARIABLES http, pipe, norm, pjson, hero, sim, faq, api,
          handle, social, links, llm, comp, contact, policy, brand, catalog, gather, pool, store, finder, run

vars == <<http, pipe, norm, pjson, hero, sim, faq, api,
          handle, social, links, llm, comp, contact, policy, brand, catalog, gather, pool, store, finder, run>>

\* A component no call is running in.
Idle == [pc |-> "idle"]

\* Python's None.
None == "None"

\* ------------------------------------------------------------------------
\* Generic helpers
\* ------------------------------------------------------------------------

RECURSIVE Pow2(_)
\* 2 ** n, as in `2 ** attempt`.
Pow2(n) == IF n = 0 THEN 1 ELSE 2 * Pow2(n - 1)

Min(a, b) == IF a <= b THEN a ELSE b

Max(a, b) == IF a >= b THEN a ELSE b

\* seq[:n]
Take(seq, n) == SubSeq(seq, 1, Min(n, Len(seq)))

\* The elements of a sequence.
Range(seq) == {seq[i] : i \in 1..Len(seq)}

\* All sequences over S of length at most n.
SeqsUpTo(S, n) == UNION {[1..k -> S] : k \in 0..n}

\* ------------------------------------------------------------------------
\* HTTPClient.get_page_content / get_json
\* ------------------------------------------------------------------------

\* settings.MAX_RETRIES
MAX_RETRIES == 3

\* Largest explicit `retries` argument explored.
MaxRetriesArg == 3

\* What one `session.get(url)` attempt can meet: a response with a status
\* (and, for a 200, a body that decodes or not), or an exception.
\*   body "ok"      text / valid JSON served as application/json
\*   body "badjson" served as application/json but not valid JSON:
\*                  response.json() raises json.JSONDecodeError
\*   body "ctype"   valid JSON served under another content type:
\*                  response.json() raises aiohttp.ContentTypeError
\*   body "html"    an HTML page served as text/html: response.json()
\*                  raises aiohttp.ContentTypeError before it decodes
PageOutcomes ==
    {[type |-> "response", status |-> s, body |-> "ok"] : s \in {200, 201, 404, 500}}
    \cup {[type |-> "exception", status |-> 0, body |-> e] : e \in {"timeout", "error"}}

JsonOutcomes ==
    PageOutcomes
    \cup {[type |-> "response", status |-> 200, body |-> b] :
            b \in {"badjson", "ctype", "html"}}

Outcomes(kind) == IF kind = "json" THEN JsonOutcomes ELSE PageOutcomes

\* A 404 answered as if it were any other unexpected status.
ClassifyRetry404(kind, o) ==
    IF o.type = "response" /\ o.status = 200 /\ ~(kind = "json" /\ o.body # "ok")
    THEN "content"
    ELSE IF kind = "json" /\ o.type = "response" /\ o.status = 200 /\ o.body = "badjson"
    THEN "none"
    ELSE "retry"

\* The body of the try block of one loop iteration: what the attempt leads to.
\*   "content"  return the body              (status 200)
\*   "none"     return None at once          (status 404; JSONDecodeError)
\*   "retry"    fall through to the backoff  (other status; timeout; exception)
Classify(kind, o) ==
    IF o.type = "response"
    THEN IF o.status = 200
         THEN IF kind = "json"
              THEN CASE o.body = "ok"      -> "content"
                     [] o.body = "badjson" -> "none"
                     [] OTHER              -> "retry"
              ELSE "content"
         ELSE IF o.status = 404
         THEN "none"
         ELSE "retry"
    ELSE "retry"

\* `if attempt < retries:` guarding `await asyncio.sleep(2 ** attempt)`
ShouldSleep(attempt, retries) == attempt < retries

\* A loop over range(retries): one attempt short.
LoopContinuesShort(attempt, retries) == attempt + 1 < retries

\* `for attempt in range(retries + 1)`: is there a next iteration?
LoopContinues(attempt, retries) == attempt + 1 < retries + 1

\* The frame of a call get_page_content(url, retries) / get_json(url, retries).
\* retriesArg is <<>> for `retries=None` and <<n>> for an explicit n.
HttpFrame(kind, retriesArg) ==
    [pc |-> "call", kind |-> kind, retriesArg |-> retriesArg, retries |-> 0,
     attempt |-> 0, log |-> <<>>, sleeps |-> <<>>, result |-> "pending"]

\* `if retries is None: retries = settings.MAX_RETRIES`, then the loop starts.
HttpCall ==
    /\ http.pc = "call"
    /\ http' = [http EXCEPT
                  !.retries = IF http.retriesArg = <<>> THEN MAX_RETRIES
                              ELSE http.retriesArg[1],
                  !.attempt = 0,
                  !.pc = "request"]
    /\ UNCHANGED <<pipe, norm, pjson, hero, sim, faq, api,
                    handle, social, links, llm, comp, contact, policy, brand, catalog, gather, pool, store, finder, run>>

\* One `async with self.session.get(url) as response` attempt.
HttpAttempt ==
    /\ http.pc = "request"
    /\ \E o \in Outcomes(http.kind) :
         LET c == Classify(http.kind, o) IN
         http' = [http EXCEPT
                    !.log = Append(@, o),
                    !.result = CASE c = "content" -> "content"
                                 [] c = "none"    -> None
                                 [] OTHER         -> @,
                    !.pc = IF c = "retry" THEN "backoff" ELSE "done"]
    /\ UNCHANGED <<pipe, norm, pjson, hero, sim, faq, api,
                    handle, social, links, llm, comp, contact, policy, brand, catalog, gather, pool, store, finder, run>>

\* The tail of a failed iteration: the conditional sleep, then either the
\* next iteration or the `return None` after the loop.
HttpBackoff ==
    /\ http.pc = "backoff"
    /\ http' = [http EXCEPT
                  !.sleeps = IF ShouldSleep(http.attempt, http.retries)
                             THEN Append(@, Pow2(http.attempt)) ELSE @,
                  !.attempt = IF LoopContinues(http.attempt, http.retries)
                              THEN @ + 1 ELSE @,
                  !.result = IF LoopContinues(http.attempt, http.retries)
                             THEN @ ELSE None,
                  !.pc = IF LoopContinues(http.attempt, http.retries)
                         THEN "request" ELSE "done"]
    /\ UNCHANGED <<pipe, norm, pjson, hero, sim, faq, api,
                    handle, social, links, llm, comp, contact, policy, brand, catalog, gather, pool, store, finder, run>>

InitFetch ==
    /\ http \in {HttpFrame(k, r) : k \in {"page", "json"},
                                   r \in {<<>>} \cup {<<n>> : n \in 0..MaxRetriesArg}}
    /\ pipe = Idle /\ norm = Idle /\ pjson = Idle /\ hero = Idle
    /\ sim = Idle /\ faq = Idle /\ api = Idle
    /\ handle = Idle /\ social = Idle /\ links = Idle /\ llm = Idle
    /\ comp = Idle
    /\ contact = Idle
    /\ policy = Idle
    /\ brand = Idle
    /\ catalog = Idle
    /\ gather = Idle
    /\ pool = Idle
    /\ store = Idle
    /\ finder = Idle
    /\ run = Idle

NextFetch == HttpCall \/ HttpAttempt \/ HttpBackoff

\* One call of the fetcher, against every behaviour of the endpoint.
SpecFetch == InitFetch /\ [][NextFetch]_vars

\* Is the outcome a transient failure (timeout, network error, or a status
\* other than 200 and 404)?
IsTransient(o) ==
    \/ o.type = "exception"
    \/ o.type = "response" /\ o.status \notin {200, 404}

\* C1: a fetch whose every attempt was a transient failure has, once it has
\* returned, made exactly retries+1 attempts, slept 2^k after failed attempt
\* k for k = 0..retries-1 and not after the last, and returned None; with the
\* default of 3 retries that is 4 attempts.
C1_RetryCount ==
    (http.pc = "done" /\ \A i \in 1..Len(http.log) : IsTransient(http.log[i]))
    => /\ Len(http.log) = http.retries + 1
       /\ http.sleeps = [k \in 1..http.retries |-> Pow2(k - 1)]
       /\ http.result = None
       /\ (http.retriesArg \in {<<>>, <<3>>} => Len(http.log) = 4)

C1_Witness ==
    /\ http.pc = "done"
    /\ http.retriesArg = <<>>
    /\ Len(http.log) = 4
    /\ \A i \in 1..4 : http.log[i].body = "timeout"
    /\ http.sleeps = <<1, 2, 4>>

\* C2: an attempt answered 404 is the last attempt of the fetch: the fetch
\* has returned None, and no backoff delay follows that attempt; a 404 on the
\* first attempt leaves exactly one attempt and no delay at all.
C2_NotFoundStops ==
    http.pc # "call" =>
    \A i \in 1..Len(http.log) :
        (http.log[i].type = "response" /\ http.log[i].status = 404)
        => /\ i = Len(http.log)
           /\ http.pc = "done"
           /\ http.result = None
           /\ Len(http.sleeps) = i - 1
           /\ (i = 1 => http.sleeps = <<>>)

C2_Witness ==
    /\ http.pc = "done"
    /\ Len(http.log) = 1
    /\ http.log[1].status = 404
    /\ http.retries = 3
    /\ http.sleeps = <<>>

\* Is the outcome a response with a 2xx status and a body that reads?
IsSuccess2xx(o) ==
    o.type = "response" /\ o.status \in 200..299 /\ o.body = "ok"

\* C13: every 2xx response ends the call on its attempt with the body as
\* the result, so that an attempt followed by another one met a timeout, a
\* network error or a status that is neither 2xx nor 404.
C13_Every2xxIsSuccess ==
    \A i \in 1..Len(http.log) :
      IsSuccess2xx(http.log[i])
      => i = Len(http.log) /\ http.pc = "done" /\ http.result = "content"

\* Is the outcome a 200 response whose body is not valid JSON?
IsInvalidJson200(o) ==
    o.type = "response" /\ o.status = 200 /\ o.body \in {"badjson", "html"}

\* C14: an attempt of get_json that received a 200 response whose body is
\* not valid JSON is the last attempt of the call, which returns None.
C14_InvalidJsonStops ==
    http.kind = "json" =>
      \A i \in 1..Len(http.log) :
        IsInvalidJson200(http.log[i])
        => i = Len(http.log) /\ http.pc = "done" /\ http.result = None

\* ------------------------------------------------------------------------
\* ShopifyStoreScraper._normalize_url
\* A string is the sequence of its characters.
\* ------------------------------------------------------------------------

\* 'http://'
HTTP_PREFIX == <<"h", "t", "t", "p", ":", "/", "/">>

\* 'https://'
HTTPS_PREFIX == <<"h", "t", "t", "p", "s", ":", "/", "/">>

\* s.startswith(p)
StartsWith(s, p) == Len(s) >= Len(p) /\ SubSeq(s, 1, Len(p)) = p

\* Dropping one trailing character c, if there is one.
RStripOnce(s, c) ==
    IF Len(s) > 0 /\ s[Len(s)] = c THEN SubSeq(s, 1, Len(s) - 1) ELSE s

RECURSIVE RStrip(_, _)
\* s.rstrip(c): every trailing c is dropped.
RStrip(s, c) ==
    IF Len(s) > 0 /\ s[Len(s)] = c
    THEN RStrip(SubSeq(s, 1, Len(s) - 1), c)
    ELSE s

\* The input with the scheme enforced: `if not url.startswith(('http://',
\* 'https://')): url = 'https://' + url`
WithScheme(url) ==
    IF ~(StartsWith(url, HTTP_PREFIX) \/ StartsWith(url, HTTPS_PREFIX))
    THEN HTTPS_PREFIX \o url
    ELSE url

_normalize_url(url) == RStrip(WithScheme(url), "/")

\* Longest part of an input URL after the first letter of its host.
MaxUrlBody == 4

\* The inputs: no scheme, http:// or https://, then a host letter and a
\* rest over a letter and the slash.
NormInputs ==
    {p \o <<"a">> \o b : p \in {<<>>, HTTP_PREFIX, HTTPS_PREFIX},
                          b \in SeqsUpTo({"a", "/"}, MaxUrlBody)}

NormalizeCall ==
    /\ norm.pc = "call"
    /\ norm' = [norm EXCEPT !.pc = "done", !.out = _normalize_url(norm.url)]
    /\ UNCHANGED <<http, pipe, pjson, hero, sim, faq, api,
                    handle, social, links, llm, comp, contact, policy, brand, catalog, gather, pool, store, finder, run>>

InitNormalize ==
    /\ norm \in {[pc |-> "call", url |-> u, out |-> <<>>] : u \in NormInputs}
    /\ http = Idle /\ pipe = Idle /\ pjson = Idle /\ hero = Idle
    /\ sim = Idle /\ faq = Idle /\ api = Idle
    /\ handle = Idle /\ social = Idle /\ links = Idle /\ llm = Idle
    /\ comp = Idle
    /\ contact = Idle
    /\ policy = Idle
    /\ brand = Idle
    /\ catalog = Idle
    /\ gather = Idle
    /\ pool = Idle
    /\ store = Idle
    /\ finder = Idle
    /\ run = Idle

NextNormalize == NormalizeCall

\* One call of _normalize_url on every input.
SpecNormalize == InitNormalize /\ [][NextNormalize]_vars

HasScheme(url) == StartsWith(url, HTTP_PREFIX) \/ StartsWith(url, HTTPS_PREFIX)

\* C5 (as amended): the result is the input, with https:// put in front of
\* it when it starts with neither http:// nor https:// (an http:// input
\* keeps its scheme), less ALL of its trailing slashes: the result is a
\* prefix of that string, what was cut off is slashes only, and the result
\* does not end in a slash.
C5_NormalizeStripsAll ==
    norm.pc = "done" =>
    LET u == IF HasScheme(norm.url) THEN norm.url ELSE HTTPS_PREFIX \o norm.url
        out == norm.out
    IN /\ Len(out) <= Len(u)
       /\ SubSeq(u, 1, Len(out)) = out
       /\ \A i \in (Len(out) + 1)..Len(u) : u[i] = "/"
       /\ (Len(out) > 0 => out[Len(out)] # "/")
       /\ (StartsWith(norm.url, HTTP_PREFIX) => StartsWith(out, <<"h", "t", "t", "p", ":">>))
       /\ (norm.url = <<"a">> => out = HTTPS_PREFIX \o <<"a">>)
       /\ (norm.url = HTTPS_PREFIX \o <<"a", "/">> => out = HTTPS_PREFIX \o <<"a">>)

\* An input without scheme and with two trailing slashes: both are dropped.
C5_Witness ==
    /\ norm.pc = "done"
    /\ norm.url = <<"a", "/", "/">>
    /\ norm.out = HTTPS_PREFIX \o <<"a">>

\* C5 as stated: exactly one trailing slash is stripped.
C5_StripsExactlyOne ==
    norm.pc = "done" =>
    LET u == IF HasScheme(norm.url) THEN norm.url ELSE HTTPS_PREFIX \o norm.url
    IN norm.out = (IF Len(u) > 0 /\ u[Len(u)] = "/"
                   THEN SubSeq(u, 1, Len(u) - 1) ELSE u)

\* ------------------------------------------------------------------------
\* ShopifyStoreScraper.extract_insights
\* A Python value carries its dynamic type: [type |-> ..., v |-> payload].
\* ------------------------------------------------------------------------

\* SocialHandlesSchema's fields (models/schemas.py)
Platforms ==
    {"instagram", "facebook", "twitter", "tiktok", "youtube", "linkedin", "pinterest"}

\* ImportantLinksSchema's fields (models/schemas.py)
LinkCategories ==
    {"order_tracking", "contact_us", "blogs", "size_guide", "shipping_info",
     "careers", "about_us"}

\* The keys extract_all_policies may return.
PolicyTypes == {"privacy", "return", "refund", "terms"}

\* SocialHandlesSchema(): every platform unset.
SocialHandlesDefault == [p \in Platforms |-> None]

\* ContactDetailsSchema(): empty lists, no address, no hours.
ContactDetailsDefault ==
    [emails |-> <<>>, phone_numbers |-> <<>>, address |-> None, support_hours |-> None]

\* ImportantLinksSchema(): every category unset.
ImportantLinksDefault == [c \in LinkCategories |-> None]

\* The eight coroutines of `extraction_tasks`, in list order.
TaskNames ==
    <<"product_catalog", "hero_products", "policies", "faqs", "social_handles",
      "contact_details", "important_links", "brand_context">>

NumTasks == Len(TaskNames)

\* The substitute of lines 53-60 for the task at each position.
TaskDefault ==
    <<[type |-> "list", v |-> <<>>],
      [type |-> "list", v |-> <<>>],
      [type |-> "dict", v |-> <<>>],
      [type |-> "list", v |-> <<>>],
      [type |-> "SocialHandlesSchema", v |-> SocialHandlesDefault],
      [type |-> "ContactDetailsSchema", v |-> ContactDetailsDefault],
      [type |-> "ImportantLinksSchema", v |-> ImportantLinksDefault],
      [type |-> "NoneType", v |-> None]>>

\* What each task can return when it does not raise.
TaskReturns ==
    <<{[type |-> "list", v |-> <<"product1", "product2">>]},
      {[type |-> "list", v |-> <<"hero1">>]},
      {[type |-> "dict", v |-> [k \in {"privacy"} |-> "privacy text"]],
       [type |-> "dict", v |-> [k \in PolicyTypes |-> "text"]]},
      {[type |-> "list", v |-> <<"faq1">>]},
      {[type |-> "SocialHandlesSchema",
        v |-> [SocialHandlesDefault EXCEPT !["instagram"] = "handle"]]},
      {[type |-> "ContactDetailsSchema",
        v |-> [ContactDetailsDefault EXCEPT !.emails = <<"shop@a.co">>]]},
      {[type |-> "ImportantLinksSchema",
        v |-> [ImportantLinksDefault EXCEPT !["contact_us"] = "/contact"]]},
      {[type |-> "str", v |-> "about text"]}>>

\* An exception object, as gather(return_exceptions=True) hands it over.
RaisedException == [type |-> "Exception", v |-> "error"]

\* A task that has not completed.
Running == [type |-> "running", v |-> "running"]

\* isinstance(x, Exception)
IsException(x) == x.type = "Exception"

\* The result kept as it is, exception or not.
OrDefaultKeep(x, d) == x

\* `x if not isinstance(x, Exception) else d`
OrDefault(x, d) == IF ~IsException(x) THEN x ELSE d

\* A landing page of None parsed as an empty page.
LandingParsesAnything(content) == TRUE

\* BeautifulSoup(main_page_content, 'html.parser') takes len() of its markup:
\* a str parses, None raises TypeError.
LandingParses(content) == content # None

\* policies.get(k)
DictGet(d, k) == IF k \in DOMAIN d THEN d[k] ELSE None

\* BrandInsightsSchema(...) of lines 61-76, from the eight substituted
\* values m (by position), the brand name, the URL and datetime.now().
BuildInsights(brand_name, normalized_url, m, now) ==
    [brand_name |-> brand_name,
     website_url |-> normalized_url,
     product_catalog |-> m[1].v,
     hero_products |-> m[2].v,
     privacy_policy |-> DictGet(m[3].v, "privacy"),
     return_policy |-> DictGet(m[3].v, "return"),
     refund_policy |-> DictGet(m[3].v, "refund"),
     terms_of_service |-> DictGet(m[3].v, "terms"),
     faqs |-> m[4].v,
     social_handles |-> m[5].v,
     contact_details |-> m[6].v,
     important_links |-> m[7].v,
     brand_context |-> m[8].v,
     extraction_timestamp |-> now]

\* The URLs extract_insights is called with.
PipeUrls == {<<"a">>, HTTPS_PREFIX \o <<"a", "/">>}

\* Latest reading of the clock.
MaxClock == 2

\* The frame of a call extract_insights(website_url).  `record` is <<>>
\* until the call returns <<insights>>; `error` is None unless it raised.
\* `landing` remembers how the landing fetch ended.  `llm_available` is
\* the scraper's llm_processor.is_available(); `llm_calls` holds the
\* methods of the processor that have been called.
PipeFrame(url, llm_available) ==
    [pc |-> "start", website_url |-> url, normalized_url |-> <<>>,
     main_page_content |-> "pending", landing |-> "pending",
     brand_name |-> None, results |-> [i \in 1..NumTasks |-> Running],
     llm_available |-> llm_available, llm_calls |-> {},
     record |-> <<>>, error |-> None]

\* Lines 36-37: normalize the URL and call get_page_content on it.
PipeStart ==
    /\ pipe.pc = "start"
    /\ pipe' = [pipe EXCEPT !.normalized_url = _normalize_url(pipe.website_url),
                            !.pc = "fetch"]
    /\ http' = HttpFrame("page", <<>>)
    /\ UNCHANGED <<norm, pjson, hero, sim, faq, api,
                    handle, social, links, llm, comp, contact, policy, brand, catalog, gather, pool, store, finder, run>>

\* How a finished fetch ended: with the body, on a 404, or out of retries.
FetchEnd(h) ==
    IF h.result # None THEN "content"
    ELSE IF h.log[Len(h.log)].type = "response" /\ h.log[Len(h.log)].status = 404
    THEN "notfound"
    ELSE "exhausted"

\* Lines 37-49: the fetch has returned; parse the page (or raise), take the
\* brand name from it, and start the eight tasks.
PipeLanding ==
    /\ pipe.pc = "fetch"
    /\ http.pc = "done"
    /\ IF LandingParses(http.result)
       THEN \E b \in {None, "Brand"} :
              pipe' = [pipe EXCEPT !.main_page_content = http.result,
                                   !.landing = FetchEnd(http),
                                   !.brand_name = b,
                                   !.pc = "fanout"]
       ELSE pipe' = [pipe EXCEPT !.main_page_content = http.result,
                                 !.landing = FetchEnd(http),
                                 !.error = "TypeError",
                                 !.pc = "failed"]
    /\ http' = Idle
    /\ UNCHANGED <<norm, pjson, hero, sim, faq, api,
                    handle, social, links, llm, comp, contact, policy, brand, catalog, gather, pool, store, finder, run>>

\* The method of LLMProcessor a task calls, by the task's position:
\* extract_faqs calls structure_faqs (extractors.py:324-325) and
\* extract_brand_context calls extract_brand_context (extractors.py:521-522).
EnrichmentOf == (4 :> "structure_faqs") @@ (8 :> "extract_brand_context")

\* An enrichment stage that follows the merge.
MayEnrichAfterMerge(p, i) == p.pc = "done"

\* Where a task's call of the processor is made: in the body of the task,
\* started by the fan-out and not yet returned, and only `if
\* self.llm_processor.is_available()`.
MayEnrich(p, i) ==
    p.pc = "fanout" /\ p.results[i] = Running /\ p.llm_available

\* A task that calls the processor awaits structure_faqs /
\* extract_brand_context.
PipeEnrich ==
    /\ \E i \in DOMAIN EnrichmentOf :
         /\ MayEnrich(pipe, i)
         /\ EnrichmentOf[i] \notin pipe.llm_calls
         /\ pipe' = [pipe EXCEPT !.llm_calls = @ \cup {EnrichmentOf[i]}]
    /\ UNCHANGED <<http, norm, pjson, hero, sim, faq, api,
                   handle, social, links, llm, comp, contact, policy, brand, catalog, gather, pool, store, finder, run>>

\* Can task i complete with r?  Both methods of the processor catch what
\* the client raises, so a task that has called one returns a value; and
\* extract_faqs hands a non-empty list to structure_faqs whenever the
\* processor is available.
TaskMayReturn(p, i, r) ==
    /\ (i \in DOMAIN EnrichmentOf /\ EnrichmentOf[i] \in p.llm_calls
          => ~IsException(r))
    /\ (i = 4 /\ p.llm_available /\ ~IsException(r) /\ r.v # <<>>
          => EnrichmentOf[i] \in p.llm_calls)

\* One of the eight tasks completes, with a value or with an exception; the
\* tasks complete in any order.
PipeTaskDone ==
    /\ pipe.pc = "fanout"
    /\ \E i \in 1..NumTasks :
         /\ pipe.results[i] = Running
         /\ \E r \in TaskReturns[i] \cup {RaisedException} :
              /\ TaskMayReturn(pipe, i, r)
              /\ pipe' = [pipe EXCEPT !.results[i] = r]
    /\ UNCHANGED <<http, norm, pjson, hero, sim, faq, api,
                    handle, social, links, llm, comp, contact, policy, brand, catalog, gather, pool, store, finder, run>>

\* Lines 50-81: gather has every result; substitute the defaults, build the
\* record and return it.  A field that holds an exception object fails the
\* schema's validation, and the error is re-raised.
PipeMerge ==
    /\ pipe.pc = "fanout"
    /\ \A i \in 1..NumTasks : pipe.results[i] # Running
    /\ LET m == [i \in 1..NumTasks |-> OrDefault(pipe.results[i], TaskDefault[i])] IN
       IF \E i \in 1..NumTasks : IsException(m[i])
       THEN pipe' = [pipe EXCEPT !.error = "ValidationError", !.pc = "failed"]
       ELSE \E now \in 1..MaxClock :
              pipe' = [pipe EXCEPT
                         !.record = <<BuildInsights(pipe.brand_name,
                                                    pipe.normalized_url, m, now)>>,
                         !.pc = "done"]
    /\ UNCHANGED <<http, norm, pjson, hero, sim, faq, api,
                    handle, social, links, llm, comp, contact, policy, brand, catalog, gather, pool, store, finder, run>>

InitPipeline ==
    /\ pipe \in {PipeFrame(u, a) : u \in PipeUrls, a \in BOOLEAN}
    /\ http = Idle /\ norm = Idle /\ pjson = Idle /\ hero = Idle
    /\ sim = Idle /\ faq = Idle /\ api = Idle
    /\ handle = Idle /\ social = Idle /\ links = Idle /\ llm = Idle
    /\ comp = Idle
    /\ contact = Idle
    /\ policy = Idle
    /\ brand = Idle
    /\ catalog = Idle
    /\ gather = Idle
    /\ pool = Idle
    /\ store = Idle
    /\ finder = Idle
    /\ run = Idle

NextPipeline ==
    \/ PipeStart
    \/ HttpCall
    \/ HttpAttempt
    \/ HttpBackoff
    \/ PipeLanding
    \/ PipeEnrich
    \/ PipeTaskDone
    \/ PipeMerge

\* One extraction, against every behaviour of the site and of the tasks.
SpecPipeline == InitPipeline /\ [][NextPipeline]_vars

\* C3: when the landing fetch has yielded no content (on a 404 or out of
\* retries), the extraction has ended in the fatal outcome: an error is
\* raised and no record, not even a partial one, is returned.
C3_LandingFailureIsFatal ==
    /\ (pipe.landing \in {"notfound", "exhausted"}
        => pipe.pc = "failed" /\ pipe.error # None /\ pipe.record = <<>>)
    /\ (pipe.pc = "failed" => pipe.record = <<>>)

C3_Witness ==
    /\ pipe.pc = "failed"
    /\ pipe.landing = "exhausted"
    /\ pipe.record = <<>>

\* C4: once the landing page has been fetched, the extraction never fails,
\* and the record it returns holds, for a task that raised, the field's
\* empty default and, for any other task, the task's value; the normalized
\* URL and the timestamp are set; when all eight raised every collection is
\* empty.
C4_TaskFailuresDegrade ==
    /\ (pipe.landing = "content" => pipe.pc # "failed" /\ pipe.error = None)
    /\ (pipe.pc = "done" =>
          LET rec == pipe.record[1]
              res == pipe.results
              val(i) == IF IsException(res[i]) THEN TaskDefault[i].v ELSE res[i].v
          IN /\ Len(pipe.record) = 1
             /\ rec.product_catalog = val(1)
             /\ rec.hero_products = val(2)
             /\ rec.privacy_policy = DictGet(val(3), "privacy")
             /\ rec.return_policy = DictGet(val(3), "return")
             /\ rec.refund_policy = DictGet(val(3), "refund")
             /\ rec.terms_of_service = DictGet(val(3), "terms")
             /\ rec.faqs = val(4)
             /\ rec.social_handles = val(5)
             /\ rec.contact_details = val(6)
             /\ rec.important_links = val(7)
             /\ rec.brand_context = val(8)
             /\ rec.website_url = _normalize_url(pipe.website_url)
             /\ rec.extraction_timestamp \in 1..MaxClock
             /\ ((\A i \in 1..NumTasks : IsException(res[i])) =>
                   /\ rec.product_catalog = <<>>
                   /\ rec.hero_products = <<>>
                   /\ rec.faqs = <<>>
                   /\ rec.privacy_policy = None /\ rec.return_policy = None
                   /\ rec.refund_policy = None /\ rec.terms_of_service = None
                   /\ \A p \in Platforms : rec.social_handles[p] = None
                   /\ rec.contact_details.emails = <<>>
                   /\ rec.contact_details.phone_numbers = <<>>
                   /\ \A c \in LinkCategories : rec.important_links[c] = None
                   /\ rec.brand_context = None))

\* Every task raised, and a record came back all the same.
C4_Witness ==
    /\ pipe.pc = "done"
    /\ \A i \in 1..NumTasks : IsException(pipe.results[i])
    /\ pipe.record[1].website_url = HTTPS_PREFIX \o <<"a">>
    /\ pipe.record[1].product_catalog = <<>>

MaxVariants == 3

AvailabilityFlags == {"true", "false", "null", "missing"}

\* The product objects: no 'variants' key, 'variants': null, or a list.
ProductObjects ==
    {[variants_key |-> k, variants |-> <<>>] : k \in {"absent", "null"}}
    \cup {[variants_key |-> "list", variants |-> vs] :
            vs \in SeqsUpTo([available : AvailabilityFlags], MaxVariants)}

\* A missing flag taken for false.
VariantAvailableOrFalse(variant) ==
    IF variant.available = "missing" THEN "false" ELSE variant.available

\* variant.get('available', True), line 128
VariantAvailable(variant) ==
    IF variant.available = "missing" THEN "true" ELSE variant.available

\* Python's truth value of a JSON true / false / null.
Truthy(x) == x = "true"

\* Lines 121-130: the variants list built from product_data['variants'].
BuildVariants(product_data) ==
    IF product_data.variants_key = "absent"
    THEN <<>>
    ELSE [i \in 1..Len(product_data.variants) |->
            [available |-> VariantAvailable(product_data.variants[i])]]

\* Line 151: any(v.get('available', False) for v in variants) if variants
\* else True.  Every built variant has the key, so the False is never used.
ProductAvailable(variants) ==
    IF Len(variants) > 0
    THEN \E i \in 1..Len(variants) : Truthy(variants[i].available)
    ELSE TRUE

\* The whole function: <<>> for None (iterating 'variants': null raises
\* TypeError, caught at line 157), else <<product>>.
_parse_product_json(product_data) ==
    IF product_data.variants_key = "null"
    THEN <<>>
    ELSE LET variants == BuildVariants(product_data) IN
         <<[variants |-> variants, available |-> ProductAvailable(variants)]>>

ParseProductCall ==
    /\ pjson.pc = "call"
    /\ pjson' = [pjson EXCEPT !.pc = "done",
                              !.product = _parse_product_json(pjson.product_data)]
    /\ UNCHANGED <<http, pipe, norm, hero, sim, faq, api,
                    handle, social, links, llm, comp, contact, policy, brand, catalog, gather, pool, store, finder, run>>

InitProductJson ==
    /\ pjson \in {[pc |-> "call", product_data |-> d, product |-> <<>>] :
                    d \in ProductObjects}
    /\ http = Idle /\ pipe = Idle /\ norm = Idle /\ hero = Idle
    /\ sim = Idle /\ faq = Idle /\ api = Idle
    /\ handle = Idle /\ social = Idle /\ links = Idle /\ llm = Idle
    /\ comp = Idle
    /\ contact = Idle
    /\ policy = Idle
    /\ brand = Idle
    /\ catalog = Idle
    /\ gather = Idle
    /\ pool = Idle
    /\ store = Idle
    /\ finder = Idle
    /\ run = Idle

NextProductJson == ParseProductCall

\* One call of _parse_product_json on every product object.
SpecProductJson == InitProductJson /\ [][NextProductJson]_vars

\* C6 (as amended): a parsed product is available exactly when the object
\* has no variants or at least one variant's flag is true or missing (a
\* missing flag is read as true); [false, true] gives true and all-false
\* gives false.
C6_AvailableAnyOrMissing ==
    (pjson.pc = "done" /\ pjson.product # <<>>) =>
    LET vs == pjson.product_data.variants IN
    /\ pjson.product[1].available
       = (\/ Len(vs) = 0
          \/ \E i \in 1..Len(vs) : vs[i].available \in {"true", "missing"})
    /\ (vs = <<[available |-> "false"], [available |-> "true"]>>
        => pjson.product[1].available)
    /\ ((Len(vs) > 0 /\ \A i \in 1..Len(vs) : vs[i].available = "false")
        => ~pjson.product[1].available)

\* A first variant that is unavailable and a second without the flag.
C6_Witness ==
    /\ pjson.pc = "done"
    /\ pjson.product_data.variants = <<[available |-> "false"], [available |-> "missing"]>>
    /\ pjson.product # <<>>
    /\ pjson.product[1].available

\* C6 as stated: available exactly when there are no variants or some
\* variant's flag is true.
C6_AvailableIffSomeFlagTrue ==
    (pjson.pc = "done" /\ pjson.product # <<>>) =>
    LET vs == pjson.product_data.variants IN
    pjson.product[1].available
    = (\/ Len(vs) = 0
       \/ \E i \in 1..Len(vs) : vs[i].available = "true")

\* ------------------------------------------------------------------------
\* ProductExtractor.extract_hero_products
\* The landing page is the sequence of its elements in document order; an
\* element has the hero selectors it matches and the title text found in
\* it ("" when it has none).  A product parsed from an element keeps the
\* element's position, which stands for its price, image and link.
\* ------------------------------------------------------------------------

\* hero_selectors, lines 78-86, in priority order
hero_selectors ==
    <<".featured-product", ".hero-product", ".product-featured",
      ".homepage-product", "[data-product-id]", ".product-card", ".product-item">>

\* `elements[:6]`, line 91
HERO_LIMIT == 6

\* Most elements of a landing page.
MaxElements == 7

\* The elements a page is made of: featured products and product cards with
\* one of two titles, and a product card without a title.
ElementKinds ==
    [classes : {{".featured-product"}, {".product-card"}}, title : {"Mug", "Cap"}]
    \cup {[classes |-> {".product-card"}, title |-> ""]}

\* soup.select(selector): the positions of the matching elements, in
\* document order.
Select(page, selector) ==
    SelectSeq([i \in 1..Len(page) |-> i], LAMBDA i : selector \in page[i].classes)

RECURSIVE FirstMatch(_, _)
\* Lines 88-90, 95: the matches of the first selector (from the k-th on) that
\* matches any element; <<>> when none does.
FirstMatch(page, k) ==
    IF k > Len(hero_selectors) THEN <<>>
    ELSE IF Len(Select(page, hero_selectors[k])) > 0
         THEN Select(page, hero_selectors[k])
         ELSE FirstMatch(page, k + 1)

\* _parse_product_element: <<>> for None (no title found), else <<product>>.
_parse_product_element(page, i) ==
    IF page[i].title = "" THEN <<>>
    ELSE <<[title |-> page[i].title, pos |-> i]>>

RECURSIVE ParseAll(_, _)
\* Lines 91-94: the products of the given elements, None results skipped.
ParseAll(page, elements) ==
    IF elements = <<>> THEN <<>>
    ELSE _parse_product_element(page, Head(elements)) \o ParseAll(page, Tail(elements))

\* No deduplication at all.
KeepAll(products) == products

RECURSIVE UniqueFrom(_, _)
UniqueFrom(products, seen_titles) ==
    IF products = <<>> THEN <<>>
    ELSE IF Head(products).title \notin seen_titles
         THEN <<Head(products)>>
              \o UniqueFrom(Tail(products), seen_titles \cup {Head(products).title})
         ELSE UniqueFrom(Tail(products), seen_titles)

\* Lines 98-103: the first product of each title, in order.
UniqueByTitle(products) == UniqueFrom(products, {})

\* `elements[:6]`
FirstSix(elements) == Take(elements, HERO_LIMIT)

extract_hero_products(page) ==
    UniqueByTitle(ParseAll(page, FirstSix(FirstMatch(page, 1))))

HeroCall ==
    /\ hero.pc = "call"
    /\ hero' = [hero EXCEPT !.pc = "done",
                            !.hero_products = extract_hero_products(hero.page)]
    /\ UNCHANGED <<http, pipe, norm, pjson, sim, faq, api,
                    handle, social, links, llm, comp, contact, policy, brand, catalog, gather, pool, store, finder, run>>

InitHero ==
    /\ hero \in {[pc |-> "call", page |-> p, hero_products |-> <<>>] :
                   p \in SeqsUpTo(ElementKinds, MaxElements)}
    /\ http = Idle /\ pipe = Idle /\ norm = Idle /\ pjson = Idle
    /\ sim = Idle /\ faq = Idle /\ api = Idle
    /\ handle = Idle /\ social = Idle /\ links = Idle /\ llm = Idle
    /\ comp = Idle
    /\ contact = Idle
    /\ policy = Idle
    /\ brand = Idle
    /\ catalog = Idle
    /\ gather = Idle
    /\ pool = Idle
    /\ store = Idle
    /\ finder = Idle
    /\ run = Idle

NextHero == HeroCall

\* One call of extract_hero_products on every landing page.
SpecHero == InitHero /\ [][NextHero]_vars

\* The elements the extraction looks at: the first six matches of the first
\* selector, in priority order, that matches anything.
Considered(page) ==
    LET hits == {k \in 1..Len(hero_selectors) :
                   \E i \in 1..Len(page) : hero_selectors[k] \in page[i].classes}
    IN IF hits = {} THEN {}
       ELSE LET k == CHOOSE k \in hits : \A j \in hits : k <= j
                m == {i \in 1..Len(page) : hero_selectors[k] \in page[i].classes}
            IN {i \in m : Cardinality({j \in m : j < i}) < 6}

\* C7: the hero list has at most 6 products, no two of them with the same
\* title, in page order, and for every title found among the elements
\* looked at it holds the first such element; three matched elements of
\* which two share a title give a list of length 2.
C7_HeroDedup ==
    hero.pc = "done" =>
    LET r == hero.hero_products
        page == hero.page
        c == Considered(page)
    IN /\ Len(r) <= 6
       /\ \A i, j \in 1..Len(r) : i # j => r[i].title # r[j].title
       /\ \A i, j \in 1..Len(r) : i < j => r[i].pos < r[j].pos
       /\ \A i \in 1..Len(r) :
            /\ r[i].pos \in c
            /\ page[r[i].pos].title = r[i].title
            /\ \A e \in c : page[e].title = r[i].title => r[i].pos <= e
       /\ \A e \in c : page[e].title # "" => \E i \in 1..Len(r) : r[i].title = page[e].title
       /\ (/\ Cardinality(c) = 3
           /\ \A e \in c : page[e].title # ""
           /\ Cardinality({page[e].title : e \in c}) = 2
           => Len(r) = 2)

\* Three matched elements, the first and the third with the same title.
C7_Witness ==
    /\ hero.pc = "done"
    /\ Len(hero.page) = 3
    /\ \A i \in 1..3 : hero.page[i].classes = {".product-card"}
    /\ hero.page[1].title = "Mug" /\ hero.page[2].title = "Cap" /\ hero.page[3].title = "Mug"
    /\ hero.hero_products = <<[title |-> "Mug", pos |-> 1], [title |-> "Cap", pos |-> 2]>>

\* ------------------------------------------------------------------------
\* CompetitorAnalyzer._calculate_similarity
\* Of a record the model keeps the product_type of each catalog product
\* ("" for a product without one) and the social handles.  The score is
\* kept as an exact fraction <<numerator, denominator>>; the code computes
\* the same quotients in floating point.
\* ------------------------------------------------------------------------

\* Most products of a catalog.
MaxCatalog == 2

\* Most platforms a record has a handle for.
MaxHandles == 3

\* The product types of the catalogs; "" is a product without a type.
ProductTypeValues == {"", "Mugs", "mugs", "caps"}

\* str.lower() on the product types.
Lower(t) == IF t = "Mugs" THEN "mugs" ELSE t

\* The platforms in the order of SocialHandlesSchema's fields.
PlatformOrder ==
    <<"instagram", "facebook", "twitter", "tiktok", "youtube", "linkedin", "pinterest">>

\* The social handles explored: the first n platforms set, or an empty
\* string as the only handle.
SocialInputs ==
    {[p \in Platforms |->
        IF \E i \in 1..n : PlatformOrder[i] = p THEN "handle" ELSE None] :
       n \in 0..MaxHandles}
    \cup {[SocialHandlesDefault EXCEPT !["instagram"] = ""]}

\* The records compared.
SimRecords ==
    [product_types : SeqsUpTo(ProductTypeValues, MaxCatalog), social_handles : SocialInputs]

\* a + b on fractions
FracAdd(a, b) == <<a[1] * b[2] + b[1] * a[2], a[2] * b[2]>>

\* Lines 184-185: set(p.product_type.lower() for p in catalog if p.product_type)
TypeSet(rec) == {Lower(t) : t \in {x \in Range(rec.product_types) : x # ""}}

\* Lines 193-194: sum(1 for v in social.values() if v)
PlatformCount(rec) ==
    Cardinality({p \in Platforms : rec.social_handles[p] \notin {None, ""}})

\* The sum divided by three whatever the number of signals.
MeanOverThree(score, total_factors) == <<score[1], score[2] * 3>>

\* Line 204: (score / total_factors) if total_factors > 0 else 0.0
MeanOver(score, total_factors) ==
    IF total_factors > 0 THEN <<score[1], score[2] * total_factors>> ELSE <<0, 1>>

\* Lines 181-204.  Each step is <<score, total_factors>>.
_calculate_similarity(main_brand, competitor) ==
    LET s0 == <<<<0, 1>>, 0>>
        main_types == TypeSet(main_brand)
        comp_types == TypeSet(competitor)
        s1 == IF /\ Len(main_brand.product_types) > 0
                 /\ Len(competitor.product_types) > 0
                 /\ main_types # {} /\ comp_types # {}
              THEN LET overlap == Cardinality(main_types \cap comp_types)
                       union == Cardinality(main_types \cup comp_types)
                   IN <<FracAdd(s0[1], IF union > 0 THEN <<overlap, union>> ELSE <<0, 1>>),
                        s0[2] + 1>>
              ELSE s0
        main_platforms == PlatformCount(main_brand)
        comp_platforms == PlatformCount(competitor)
        s2 == IF main_platforms > 0 /\ comp_platforms > 0
              THEN <<FracAdd(s1[1], <<Min(main_platforms, comp_platforms),
                                      Max(main_platforms, comp_platforms)>>),
                     s1[2] + 1>>
              ELSE s1
        main_product_count == Len(main_brand.product_types)
        comp_product_count == Len(competitor.product_types)
        s3 == IF main_product_count > 0 /\ comp_product_count > 0
              THEN <<FracAdd(s2[1], <<Min(main_product_count, comp_product_count),
                                      Max(main_product_count, comp_product_count)>>),
                     s2[2] + 1>>
              ELSE s2
    IN MeanOver(s3[1], s3[2])

SimilarityCall ==
    /\ sim.pc = "call"
    /\ sim' = [sim EXCEPT !.pc = "done",
                          !.score = _calculate_similarity(sim.main_brand, sim.competitor)]
    /\ UNCHANGED <<http, pipe, norm, pjson, hero, faq, api,
                    handle, social, links, llm, comp, contact, policy, brand, catalog, gather, pool, store, finder, run>>

InitSimilarity ==
    /\ sim \in {[pc |-> "call", main_brand |-> a, competitor |-> b, score |-> <<0, 1>>] :
                  a \in SimRecords, b \in SimRecords}
    /\ http = Idle /\ pipe = Idle /\ norm = Idle /\ pjson = Idle
    /\ hero = Idle /\ faq = Idle /\ api = Idle
    /\ handle = Idle /\ social = Idle /\ links = Idle /\ llm = Idle
    /\ comp = Idle
    /\ contact = Idle
    /\ policy = Idle
    /\ brand = Idle
    /\ catalog = Idle
    /\ gather = Idle
    /\ pool = Idle
    /\ store = Idle
    /\ finder = Idle
    /\ run = Idle

NextSimilarity == SimilarityCall

\* One call of _calculate_similarity on every pair of records.
SpecSimilarity == InitSimilarity /\ [][NextSimilarity]_vars

\* The three signals of a pair of records, each <<comparable, num, den>>.
Signals(a, b) ==
    LET ta == {Lower(t) : t \in Range(a.product_types) \ {""}}
        tb == {Lower(t) : t \in Range(b.product_types) \ {""}}
        pa == Cardinality({p \in Platforms : a.social_handles[p] \notin {None, ""}})
        pb == Cardinality({p \in Platforms : b.social_handles[p] \notin {None, ""}})
        ca == Len(a.product_types)
        cb == Len(b.product_types)
    IN <<IF ta # {} /\ tb # {}
         THEN <<TRUE, Cardinality(ta \cap tb), Cardinality(ta \cup tb)>>
         ELSE <<FALSE, 0, 1>>,
         IF pa > 0 /\ pb > 0
         THEN <<TRUE, IF pa < pb THEN pa ELSE pb, IF pa < pb THEN pb ELSE pa>>
         ELSE <<FALSE, 0, 1>>,
         IF ca > 0 /\ cb > 0
         THEN <<TRUE, IF ca < cb THEN ca ELSE cb, IF ca < cb THEN cb ELSE ca>>
         ELSE <<FALSE, 0, 1>>>>

\* C8: the score is the unweighted mean of the comparable signals (Jaccard
\* index of the product types, ratio of the platform counts, ratio of the
\* catalog sizes), 0 when none is comparable, always within [0, 1], and 1
\* when all three are comparable and equal on both sides.
C8_SimilarityMean ==
    sim.pc = "done" =>
    LET g == Signals(sim.main_brand, sim.competitor)
        k == Cardinality({i \in 1..3 : g[i][1]})
        n == sim.score[1]
        d == sim.score[2]
    IN /\ d > 0
       /\ 0 <= n /\ n <= d
       /\ (k = 0 => n = 0)
       /\ (k > 0 =>
             n * (k * g[1][3] * g[2][3] * g[3][3])
             = d * (g[1][2] * g[2][3] * g[3][3]
                    + g[2][2] * g[1][3] * g[3][3]
                    + g[3][2] * g[1][3] * g[2][3]))
       /\ ((k = 3 /\ \A i \in 1..3 : g[i][2] = g[i][3]) => n = d)

\* Two records with the same types (up to case), one platform each and
\* catalogs of the same size: all three signals are 1.
C8_Witness ==
    /\ sim.pc = "done"
    /\ sim.main_brand.product_types = <<"Mugs", "caps">>
    /\ sim.competitor.product_types = <<"caps", "mugs">>
    /\ PlatformCount(sim.main_brand) = 1
    /\ PlatformCount(sim.competitor) = 1
    /\ sim.score[1] = sim.score[2]

\* ------------------------------------------------------------------------
\* FAQExtractor.extract_faqs
\* A FAQ pair parsed from a page is <<path, n>>: the n-th pair, in page
\* order, of the page at that candidate path.  A pair written by the
\* enrichment is <<"llm", n>>.
\* ------------------------------------------------------------------------

\* faq_urls, lines 298-304, in order
faq_urls ==
    <<"/pages/faq", "/pages/frequently-asked-questions", "/faq", "/help", "/support">>

\* `faqs[:20]`, line 327
FAQ_LIMIT == 20

\* Most pairs one FAQ page yields.
MaxPairs == 30

\* Most pairs the enrichment returns.
MaxStructured == 25

\* The numbers of pairs _parse_faq_page finds on a fetched page.
PairCounts == {0, 1, FAQ_LIMIT, MaxPairs}

\* The lengths of the list structure_faqs builds from a parsed reply.
StructuredCounts == {0, 2, MaxStructured}

\* The pairs of the page at `path`, in page order.
PagePairs(path, k) == [n \in 1..k |-> <<path, n>>]

\* The list returned uncut.
ReturnAll(faqs) == faqs

\* `return faqs[:20]`
CapFaqs(faqs) == Take(faqs, FAQ_LIMIT)

\* `if faqs: break`, lines 316-317
FoundAny(faqs) == Len(faqs) > 0

\* The frame of a call extract_faqs(base_url); `idx` is the position in
\* faq_urls of the next path to try, `fetched` the fetches made so far.
FaqFrame(llm_available) ==
    [pc |-> "loop", idx |-> 1, faqs |-> <<>>, fetched |-> <<>>,
     llm_available |-> llm_available, enriched |-> FALSE, result |-> <<>>]

\* Where the loop goes after the iteration at idx.
AfterIteration(f, stop) ==
    IF stop \/ f.idx + 1 > Len(faq_urls) THEN "enrich" ELSE "loop"

\* Lines 306-321: one iteration.  get_page_content returns None or the page;
\* the page yields k pairs, or parsing it raises and the loop continues.
FaqTryPath ==
    /\ faq.pc = "loop"
    /\ \/ \E got \in {"none", "raise"} :
            faq' = [faq EXCEPT
                      !.fetched = Append(@, [url |-> faq_urls[faq.idx], got |-> got, pairs |-> 0]),
                      !.idx = @ + 1,
                      !.pc = AfterIteration(faq, FALSE)]
       \/ \E k \in PairCounts :
            LET faqs == faq.faqs \o PagePairs(faq_urls[faq.idx], k) IN
            faq' = [faq EXCEPT
                      !.fetched = Append(@, [url |-> faq_urls[faq.idx], got |-> "page", pairs |-> k]),
                      !.faqs = faqs,
                      !.idx = @ + 1,
                      !.pc = AfterIteration(faq, FoundAny(faqs))]
    /\ UNCHANGED <<http, pipe, norm, pjson, hero, sim, api,
                    handle, social, links, llm, comp, contact, policy, brand, catalog, gather, pool, store, finder, run>>

\* Lines 324-325: with pairs and an enrichment client, structure_faqs
\* answers with a list built from the reply, or with the raw list (no
\* usable reply, or the client raised).
FaqEnrich ==
    /\ faq.pc = "enrich"
    /\ Len(faq.faqs) > 0 /\ faq.llm_available
    /\ \/ \E m \in StructuredCounts :
            faq' = [faq EXCEPT !.faqs = [n \in 1..m |-> <<"llm", n>>],
                               !.enriched = TRUE, !.pc = "return"]
       \/ faq' = [faq EXCEPT !.enriched = TRUE, !.pc = "return"]
    /\ UNCHANGED <<http, pipe, norm, pjson, hero, sim, api,
                    handle, social, links, llm, comp, contact, policy, brand, catalog, gather, pool, store, finder, run>>

\* Line 327, reached directly when there is nothing to enrich or no client.
FaqReturn ==
    /\ \/ faq.pc = "return"
       \/ faq.pc = "enrich" /\ ~(Len(faq.faqs) > 0 /\ faq.llm_available)
    /\ faq' = [faq EXCEPT !.result = CapFaqs(faq.faqs), !.pc = "done"]
    /\ UNCHANGED <<http, pipe, norm, pjson, hero, sim, api,
                    handle, social, links, llm, comp, contact, policy, brand, catalog, gather, pool, store, finder, run>>

InitFaq ==
    /\ faq \in {FaqFrame(a) : a \in BOOLEAN}
    /\ http = Idle /\ pipe = Idle /\ norm = Idle /\ pjson = Idle
    /\ hero = Idle /\ sim = Idle /\ api = Idle
    /\ handle = Idle /\ social = Idle /\ links = Idle /\ llm = Idle
    /\ comp = Idle
    /\ contact = Idle
    /\ policy = Idle
    /\ brand = Idle
    /\ catalog = Idle
    /\ gather = Idle
    /\ pool = Idle
    /\ store = Idle
    /\ finder = Idle
    /\ run = Idle

NextFaq == FaqTryPath \/ FaqEnrich \/ FaqReturn

\* One call of extract_faqs, against every behaviour of the site and of the
\* enrichment.
SpecFaq == InitFaq /\ [][NextFaq]_vars

\* C9: the list returned never has more than 20 entries, enriched or not;
\* the paths are fetched in their listed order and none is fetched after
\* the first page that yields a pair; without enrichment the list returned
\* is the first 20 pairs (all of them when fewer) of that page, in page
\* order.
C9_FaqCap ==
    LET f == faq.fetched IN
    /\ (faq.pc = "done" => Len(faq.result) <= 20)
    /\ Len(f) <= Len(faq_urls)
    /\ \A i \in 1..Len(f) :
         /\ f[i].url = faq_urls[i]
         /\ (f[i].pairs > 0 => i = Len(f) /\ faq.pc # "loop")
    /\ (faq.pc = "done" /\ ~faq.llm_available /\ Len(f) > 0 =>
          LET last == f[Len(f)]
              kept == IF last.pairs < 20 THEN last.pairs ELSE 20
          IN /\ Len(faq.result) = kept
             /\ \A n \in 1..kept : faq.result[n] = <<last.url, n>>)
    /\ (faq.pc = "done" /\ ~faq.llm_available /\ Len(f) = 0 => faq.result = <<>>)

\* The second path is the first to yield pairs and yields 30 of them; no
\* enrichment: the first 20 come back and the third path is never fetched.
C9_Witness ==
    /\ faq.pc = "done"
    /\ ~faq.llm_available
    /\ Len(faq.fetched) = 2
    /\ faq.fetched[2].pairs = 30
    /\ Len(faq.result) = 20
    /\ faq.result[20] = <<"/pages/frequently-asked-questions", 20>>

\* ------------------------------------------------------------------------
\* POST /insights/extract  (api/routes/insights.py, extract_insights)
\* Strings are sequences of characters, so that the keyword test on the
\* error message is the substring test of the code.
\* ------------------------------------------------------------------------

UpperLetters ==
    <<"A", "B", "C", "D", "E", "F", "G", "H", "I", "J", "K", "L", "M",
      "N", "O", "P", "Q", "R", "S", "T", "U", "V", "W", "X", "Y", "Z">>

LowerLetters ==
    <<"a", "b", "c", "d", "e", "f", "g", "h", "i", "j", "k", "l", "m",
      "n", "o", "p", "q", "r", "s", "t", "u", "v", "w", "x", "y", "z">>

\* The lower-case letter of each capital.
ToLower ==
    [c \in Range(UpperLetters) |->
       LowerLetters[CHOOSE i \in 1..Len(UpperLetters) : UpperLetters[i] = c]]

\* str.lower(), character by character
LowerChar(c) == IF c \in DOMAIN ToLower THEN ToLower[c] ELSE c

LowerStr(s) == [i \in 1..Len(s) |-> LowerChar(s[i])]

\* `k in s` on strings
Contains(s, k) ==
    \E i \in 1..(Len(s) - Len(k) + 1) : SubSeq(s, i, i + Len(k) - 1) = k

\* 'not found'
KW_NOT_FOUND ==
    <<"n", "o", "t", " ", "f", "o", "u", "n", "d">>

\* '404'
KW_404 == <<"4", "0", "4">>

\* 'does not exist'
KW_DOES_NOT_EXIST ==
    <<"d", "o", "e", "s", " ", "n", "o", "t", " ", "e", "x", "i", "s",
      "t">>

\* The keywords of line 63.
NotFoundKeywords == {KW_NOT_FOUND, KW_404, KW_DOES_NOT_EXIST}

\* Exception("Website not found"), the exception of
\* test_extract_insights_website_not_found
MSG_WEBSITE_NOT_FOUND ==
    <<"W", "e", "b", "s", "i", "t", "e", " ", "n", "o", "t", " ", "f",
      "o", "u", "n", "d">>

\* TypeError of BeautifulSoup(None, ...): "object of type 'NoneType' has no
\* len()"
MSG_NONETYPE_LEN ==
    <<"o", "b", "j", "e", "c", "t", " ", "o", "f", " ", "t", "y", "p",
      "e", " ", "'", "N", "o", "n", "e", "T", "y", "p", "e", "'", " ",
      "h", "a", "s", " ", "n", "o", " ", "l", "e", "n", "(", ")">>

\* "HTTP 404"
MSG_HTTP_404 ==
    <<"H", "T", "T", "P", " ", "4", "0", "4">>

\* "Connection timed out"
MSG_TIMED_OUT ==
    <<"C", "o", "n", "n", "e", "c", "t", "i", "o", "n", " ", "t", "i",
      "m", "e", "d", " ", "o", "u", "t">>

\* "Store DOES NOT EXIST"
MSG_DOES_NOT_EXIST ==
    <<"S", "t", "o", "r", "e", " ", "D", "O", "E", "S", " ", "N", "O",
      "T", " ", "E", "X", "I", "S", "T">>

\* str(scraping_error) of the exceptions extract_insights is seen to raise.
ScrapeErrors ==
    {MSG_WEBSITE_NOT_FOUND, MSG_NONETYPE_LEN, MSG_HTTP_404, MSG_TIMED_OUT,
     MSG_DOES_NOT_EXIST}

\* Lines 62-72: the status of the HTTPException raised for a scraping error.
ScrapeErrorStatus(message) ==
    IF \E keyword \in NotFoundKeywords : Contains(LowerStr(message), keyword)
    THEN 401
    ELSE 500

\* `hours=24`, line 45: the freshness window of the cache lookup
FRESH_HOURS == 24

\* Hours that pass in one step of the clock.
TickHours == 12

\* Latest hour of the clock.
MaxNow == 36

\* Most requests served.
MaxRequests == 2

\* str(request.website_url) of the requests: HttpUrl renders a bare host
\* with a trailing slash, and a URL with a path as it is.
RequestUrls == {HTTPS_PREFIX \o <<"a", "/">>, HTTPS_PREFIX \o <<"a", "/", "s">>}

\* The endpoint between requests.  `db` is the brand_insights table: one
\* row [website_url, updated_at] per stored brand; `log` counts the rows of
\* the extraction log.
ApiReady(db, now, served, log) ==
    [pc |-> "ready", website_url |-> <<>>, status |-> 0, source |-> "none",
     scrape |-> "none", error_message |-> <<>>, pending |-> <<>>,
     db |-> db, now |-> now, served |-> served, log |-> log]

\* A request arrives (lines 35-37).
ApiReceive ==
    /\ api.pc = "ready"
    /\ api.served < MaxRequests
    /\ \E u \in RequestUrls :
         api' = [ApiReady(api.db, api.now, api.served, api.log) EXCEPT
                   !.website_url = u, !.pc = "validate"]
    /\ UNCHANGED <<http, pipe, norm, pjson, hero, sim, faq,
                    handle, social, links, llm, comp, contact, policy, brand, catalog, gather, pool, store, finder, run>>

\* Lines 39-43: validate_shopify_url; the verdict on the URL is that of the
\* `validators` package.
ApiValidate ==
    /\ api.pc = "validate"
    /\ \E valid \in BOOLEAN :
         api' = IF valid
                THEN [api EXCEPT !.pc = "lookup"]
                ELSE [api EXCEPT !.status = 400, !.source = "error", !.pc = "responded"]
    /\ UNCHANGED <<http, pipe, norm, pjson, hero, sim, faq,
                    handle, social, links, llm, comp, contact, policy, brand, catalog, gather, pool, store, finder, run>>

\* get_recent_insights(website_url, hours): a row with that URL, updated
\* within the window.
get_recent_insights(db, website_url, now, hours) ==
    {row \in db : row.website_url = website_url /\ row.updated_at >= now - hours}

\* Lines 44-52: the cache lookup, answered from the store on a hit.
ApiLookup ==
    /\ api.pc = "lookup"
    /\ api' = IF get_recent_insights(api.db, api.website_url, api.now, FRESH_HOURS) # {}
              THEN [api EXCEPT !.status = 200, !.source = "cache", !.pc = "responded"]
              ELSE [api EXCEPT !.pc = "scrape"]
    /\ UNCHANGED <<http, pipe, norm, pjson, hero, sim, faq,
                    handle, social, links, llm, comp, contact, policy, brand, catalog, gather, pool, store, finder, run>>

\* Lines 53-88: scraper.extract_insights(website_url) returns a record or
\* raises; the background tasks are queued and the response is decided.
ApiScrape ==
    /\ api.pc = "scrape"
    /\ \/ api' = [api EXCEPT
                    !.scrape = "returned",
                    !.pending = <<[task |-> "save_insights",
                                   website_url |-> _normalize_url(api.website_url)],
                                  [task |-> "log_extraction_attempt",
                                   website_url |-> api.website_url]>>,
                    !.status = 200, !.source = "fresh", !.pc = "responded"]
       \/ \E m \in ScrapeErrors :
            api' = [api EXCEPT
                      !.scrape = "raised",
                      !.error_message = m,
                      !.pending = <<[task |-> "log_extraction_attempt",
                                     website_url |-> api.website_url]>>,
                      !.status = ScrapeErrorStatus(m),
                      !.source = "error", !.pc = "responded"]
    /\ UNCHANGED <<http, pipe, norm, pjson, hero, sim, faq,
                    handle, social, links, llm, comp, contact, policy, brand, catalog, gather, pool, store, finder, run>>

\* save_insights: the row of insights.website_url is updated or inserted.
save_insights(db, website_url, now) ==
    {row \in db : row.website_url # website_url}
    \cup {[website_url |-> website_url, updated_at |-> now]}

\* The response has been sent; the first queued background task runs.
ApiBackground ==
    /\ api.pc = "responded"
    /\ Len(api.pending) > 0
    /\ LET t == Head(api.pending) IN
       api' = [api EXCEPT
                 !.pending = Tail(@),
                 !.db = IF t.task = "save_insights"
                        THEN save_insights(@, t.website_url, api.now) ELSE @,
                 !.log = IF t.task = "log_extraction_attempt" THEN @ + 1 ELSE @]
    /\ UNCHANGED <<http, pipe, norm, pjson, hero, sim, faq,
                    handle, social, links, llm, comp, contact, policy, brand, catalog, gather, pool, store, finder, run>>

\* The request is over.
ApiFinish ==
    /\ api.pc = "responded"
    /\ Len(api.pending) = 0
    /\ api' = [api EXCEPT !.pc = "ready", !.served = @ + 1]
    /\ UNCHANGED <<http, pipe, norm, pjson, hero, sim, faq,
                    handle, social, links, llm, comp, contact, policy, brand, catalog, gather, pool, store, finder, run>>

\* Time passes between requests.
ApiTick ==
    /\ api.pc = "ready"
    /\ api.now + TickHours <= MaxNow
    /\ api' = [api EXCEPT !.now = @ + TickHours]
    /\ UNCHANGED <<http, pipe, norm, pjson, hero, sim, faq,
                    handle, social, links, llm, comp, contact, policy, brand, catalog, gather, pool, store, finder, run>>

InitApi ==
    /\ api = ApiReady({}, 0, 0, 0)
    /\ http = Idle /\ pipe = Idle /\ norm = Idle /\ pjson = Idle
    /\ hero = Idle /\ sim = Idle /\ faq = Idle
    /\ handle = Idle /\ social = Idle /\ links = Idle /\ llm = Idle
    /\ comp = Idle
    /\ contact = Idle
    /\ policy = Idle
    /\ brand = Idle
    /\ catalog = Idle
    /\ gather = Idle
    /\ pool = Idle
    /\ store = Idle
    /\ finder = Idle
    /\ run = Idle

NextApi ==
    \/ ApiReceive
    \/ ApiValidate
    \/ ApiLookup
    \/ ApiScrape
    \/ ApiBackground
    \/ ApiFinish
    \/ ApiTick

\* The extract endpoint serving requests one after the other.
SpecApi == InitApi /\ [][NextApi]_vars

\* C10: a request during which extract_insights raised the exception with
\* the message "Website not found" is answered with status 500.
C10_NotFoundAnswered500 ==
    (api.pc = "responded" /\ api.scrape = "raised"
     /\ api.error_message = MSG_WEBSITE_NOT_FOUND)
    => api.status = 500

\* Has a record extracted for the request URL u been saved within the
\* freshness window?  save_insights stores it under insights.website_url,
\* the normalized URL.
SavedFresh(db, u, now) ==
    \E row \in db : /\ row.website_url = _normalize_url(u)
                    /\ row.updated_at >= now - FRESH_HOURS

\* C15: a request for a URL whose extraction has succeeded and been saved
\* within the last 24 hours is answered from the stored record: the route
\* never comes to invoke the pipeline for it again.
C15_FreshRecordServedFromStore ==
    api.pc = "scrape" => ~SavedFresh(api.db, api.website_url, api.now)

\* ------------------------------------------------------------------------
\* POST /insights/extract calling ShopifyStoreScraper.extract_insights
\* The route of the previous section with the pipeline in place of its
\* stand-in: the error message the route tests is the message of the
\* exception the pipeline raised.
\* ------------------------------------------------------------------------

\* TypeError of BeautifulSoup(None, ...) in the releases of the parser that
\* test the type of the markup before taking its length.
MSG_INVALID_MARKUP ==
    <<"I", "n", "c", "o", "m", "i", "n", "g", " ", "m", "a", "r", "k",
      "u", "p", " ", "i", "s", " ", "o", "f", " ", "a", "n", " ", "i",
      "n", "v", "a", "l", "i", "d", " ", "t", "y", "p", "e", ":", " ",
      "N", "o", "n", "e", ".", " ", "M", "a", "r", "k", "u", "p", " ",
      "m", "u", "s", "t", " ", "b", "e", " ", "a", " ", "s", "t", "r",
      "i", "n", "g", ",", " ", "a", " ", "b", "y", "t", "e", "s", "t",
      "r", "i", "n", "g", ",", " ", "o", "r", " ", "a", "n", " ", "o",
      "p", "e", "n", " ", "f", "i", "l", "e", "h", "a", "n", "d", "l",
      "e", ".">>

\* The ValidationError of BrandInsightsSchema(...), by its headline.
MSG_VALIDATION_ERROR ==
    <<"v", "a", "l", "i", "d", "a", "t", "i", "o", "n", " ", "e", "r",
      "r", "o", "r", " ", "f", "o", "r", " ", "B", "r", "a", "n", "d",
      "I", "n", "s", "i", "g", "h", "t", "s", "S", "c", "h", "e", "m",
      "a">>

\* str(scraping_error) for the exception extract_insights re-raised at
\* line 81: the TypeError of line 38, worded as the installed parser words
\* it, or the validation error of lines 61-76.
PipelineErrorMessages(error) ==
    IF error = "TypeError"
    THEN {MSG_NONETYPE_LEN, MSG_INVALID_MARKUP}
    ELSE {MSG_VALIDATION_ERROR}

\* Line 54: the route awaits scraper.extract_insights(website_url).
ApiScrapeCall ==
    /\ api.pc = "scrape"
    /\ api' = [api EXCEPT !.pc = "scraping"]
    /\ \E a \in BOOLEAN : pipe' = PipeFrame(api.website_url, a)
    /\ UNCHANGED <<http, norm, pjson, hero, sim, faq,
                    handle, social, links, llm, comp, contact, policy, brand, catalog, gather, pool, store, finder, run>>

\* Lines 55-88: extract_insights has returned a record or raised; the
\* background tasks are queued and the response is decided.
ApiScrapeReturn ==
    /\ api.pc = "scraping"
    /\ pipe.pc \in {"done", "failed"}
    /\ IF pipe.pc = "done"
       THEN api' = [api EXCEPT
                      !.scrape = "returned",
                      !.pending = <<[task |-> "save_insights",
                                     website_url |-> pipe.record[1].website_url],
                                    [task |-> "log_extraction_attempt",
                                     website_url |-> api.website_url]>>,
                      !.status = 200, !.source = "fresh", !.pc = "responded"]
       ELSE \E m \in PipelineErrorMessages(pipe.error) :
              api' = [api EXCEPT
                        !.scrape = "raised",
                        !.error_message = m,
                        !.pending = <<[task |-> "log_extraction_attempt",
                                       website_url |-> api.website_url]>>,
                        !.status = ScrapeErrorStatus(m),
                        !.source = "error", !.pc = "responded"]
    /\ UNCHANGED <<http, pipe, norm, pjson, hero, sim, faq,
                    handle, social, links, llm, comp, contact, policy, brand, catalog, gather, pool, store, finder, run>>

\* The endpoint with its last request still to serve and an empty store.
InitExtract ==
    /\ api = ApiReady({}, 0, MaxRequests - 1, 0)
    /\ http = Idle /\ pipe = Idle /\ norm = Idle /\ pjson = Idle
    /\ hero = Idle /\ sim = Idle /\ faq = Idle
    /\ handle = Idle /\ social = Idle /\ links = Idle /\ llm = Idle
    /\ comp = Idle
    /\ contact = Idle
    /\ policy = Idle
    /\ brand = Idle
    /\ catalog = Idle
    /\ gather = Idle
    /\ pool = Idle
    /\ store = Idle
    /\ finder = Idle
    /\ run = Idle

NextExtract ==
    \/ ApiReceive
    \/ ApiValidate
    \/ ApiLookup
    \/ ApiScrapeCall
    \/ PipeStart
    \/ HttpCall
    \/ HttpAttempt
    \/ HttpBackoff
    \/ PipeLanding
    \/ PipeEnrich
    \/ PipeTaskDone
    \/ PipeMerge
    \/ ApiScrapeReturn
    \/ ApiBackground
    \/ ApiFinish

\* One request served by the route, the pipeline and the fetcher together.
SpecExtract == InitExtract /\ [][NextExtract]_vars

\* C11: a request whose extraction failed because the landing page could
\* not be fetched (a 404, or the retries used up) is answered by the
\* not-found branch of the route, a 4xx status, and not by the generic
\* server error 500.
C11_LandingFailureAnsweredNotFound ==
    (api.pc = "responded" /\ api.scrape = "raised"
     /\ pipe.landing \in {"notfound", "exhausted"})
    => api.status \in 400..499

\* ------------------------------------------------------------------------
\* validators.extract_social_handle
\* An Optional[str] is <<>> for None and <<s>> for the string s.
\* ------------------------------------------------------------------------

\* The platform names, spelled out.
PlatformChars ==
       "instagram" :> <<"i", "n", "s", "t", "a", "g", "r", "a", "m">>
    @@ "facebook" :> <<"f", "a", "c", "e", "b", "o", "o", "k">>
    @@ "twitter" :> <<"t", "w", "i", "t", "t", "e", "r">>
    @@ "tiktok" :> <<"t", "i", "k", "t", "o", "k">>
    @@ "youtube" :> <<"y", "o", "u", "t", "u", "b", "e">>
    @@ "linkedin" :> <<"l", "i", "n", "k", "e", "d", "i", "n">>
    @@ "pinterest" :> <<"p", "i", "n", "t", "e", "r", "e", "s", "t">>

\* '.com/' of the patterns (`\.com/`)
DOT_COM_SLASH == <<".", "c", "o", "m", "/">>

\* The `patterns` of lines 63-71: the literal the pattern opens with, and
\* the alternatives of its optional group, in the order the pattern lists
\* them.
patterns ==
    [p \in Platforms |->
       [literal |-> PlatformChars[p] \o DOT_COM_SLASH,
        optional |-> CASE p = "tiktok" -> <<<<"@">>>>
                       [] p = "youtube" ->
                            <<<<"c", "/">>,
                              <<"c", "h", "a", "n", "n", "e", "l", "/">>,
                              <<"u", "s", "e", "r", "/">>>>
                       [] p = "linkedin" ->
                            <<<<"c", "o", "m", "p", "a", "n", "y", "/">>,
                              <<"i", "n", "/">>>>
                       [] OTHER -> <<>>]]

\* s[i:] begins, case-insensitively, with the lower-case literal k.
MatchesAt(s, i, k) ==
    i + Len(k) - 1 <= Len(s) /\ LowerStr(SubSeq(s, i, i + Len(k) - 1)) = k

\* `([^/?]+)` tried at position j: the longest run of characters other
\* than '/' and '?', empty when there is none.
GroupAt(s, j) ==
    LET stops == {k \in j..Len(s) : s[k] \in {"/", "?"}}
        end == IF stops = {} THEN Len(s)
               ELSE (CHOOSE k \in stops : \A l \in stops : k <= l) - 1
    IN IF j > Len(s) THEN <<>> ELSE SubSeq(s, j, end)

\* The pattern tried at position i: <<group 1>> on a match, <<>> on none.
\* The optional group is greedy: its alternatives are tried in order
\* before the empty alternative.
MatchAt(s, i, pattern) ==
    IF ~MatchesAt(s, i, pattern.literal) THEN <<>>
    ELSE LET j == i + Len(pattern.literal)
             taken == {a \in 1..Len(pattern.optional) :
                         /\ MatchesAt(s, j, pattern.optional[a])
                         /\ GroupAt(s, j + Len(pattern.optional[a])) # <<>>}
         IN IF taken # {}
            THEN LET a == CHOOSE a \in taken : \A b \in taken : a <= b
                 IN <<GroupAt(s, j + Len(pattern.optional[a]))>>
            ELSE IF GroupAt(s, j) # <<>> THEN <<GroupAt(s, j)>> ELSE <<>>

\* re.search(pattern, url, re.IGNORECASE): the match at the leftmost
\* position that has one.
ReSearch(pattern, s) ==
    LET at == {i \in 1..Len(s) : MatchAt(s, i, pattern) # <<>>}
    IN IF at = {} THEN <<>>
       ELSE MatchAt(s, CHOOSE i \in at : \A k \in at : i <= k, pattern)

\* The host of a URL that has a scheme: what follows the scheme up to the
\* first '/' or '?'.
HostOf(url) ==
    IF StartsWith(url, HTTP_PREFIX) THEN GroupAt(url, Len(HTTP_PREFIX) + 1)
    ELSE IF StartsWith(url, HTTPS_PREFIX) THEN GroupAt(url, Len(HTTPS_PREFIX) + 1)
    ELSE <<>>

\* validate_url: the verdict of validators.url on the URLs explored here, a
\* scheme followed by a host that has a dot inside it.
validate_url(url) ==
    LET host == HostOf(url)
    IN \E i \in 2..(Len(host) - 1) : host[i] = "."

\* extract_social_handle(url, platform), lines 58-79
extract_social_handle(url, platform) ==
    IF ~validate_url(url) THEN <<>>
    ELSE IF platform \in DOMAIN patterns /\ ReSearch(patterns[platform], url) # <<>>
    THEN ReSearch(patterns[platform], url)
    ELSE <<url>>

\* "https://tiktok.com/@testuser"
URL_TIKTOK_TESTUSER ==
    <<"h", "t", "t", "p", "s", ":", "/", "/", "t", "i", "k", "t", "o",
      "k", ".", "c", "o", "m", "/", "@", "t", "e", "s", "t", "u", "s",
      "e", "r">>

\* "invalid-url"
URL_INVALID == <<"i", "n", "v", "a", "l", "i", "d", "-", "u", "r", "l">>

\* "testuser"
TESTUSER == <<"t", "e", "s", "t", "u", "s", "e", "r">>

\* Paths a profile link can continue with after the host.
HandlePaths ==
    {<<>>, <<"/">>, <<"/", "u">>, <<"/", "@", "u">>, <<"/", "c", "/", "u">>,
     <<"/", "u", "/", "v">>, <<"/", "U", "?", "v">>}

\* Hosts of the links: each platform's, one in capitals, and a shop's own.
HandleHosts ==
    {PlatformChars[p] \o <<".", "c", "o", "m">> : p \in Platforms}
    \cup {<<"T", "i", "k", "T", "o", "k", ".", "c", "o", "m">>,
          <<"a", ".", "c", "o">>}

\* The URLs extract_social_handle is called with.
HandleUrls ==
    {s \o h \o p : s \in {<<>>, HTTPS_PREFIX}, h \in HandleHosts, p \in HandlePaths}
    \cup {URL_TIKTOK_TESTUSER, URL_INVALID}

\* The platform arguments: the seven known names and one without a pattern.
HandlePlatforms == Platforms \cup {"snapchat"}

\* One call extract_social_handle(url, platform).
HandleCall ==
    /\ handle.pc = "call"
    /\ handle' = [handle EXCEPT !.result = extract_social_handle(handle.url, handle.platform),
                                !.pc = "done"]
    /\ UNCHANGED <<http, pipe, norm, pjson, hero, sim, faq, api,
                   social, links, llm, comp, contact, policy, brand, catalog, gather, pool, store, finder, run>>

InitHandle ==
    /\ handle \in {[pc |-> "call", url |-> u, platform |-> p, result |-> <<>>] :
                     u \in HandleUrls, p \in HandlePlatforms}
    /\ http = Idle /\ pipe = Idle /\ norm = Idle /\ pjson = Idle
    /\ hero = Idle /\ sim = Idle /\ faq = Idle /\ api = Idle
    /\ social = Idle /\ links = Idle /\ llm = Idle /\ comp = Idle
    /\ contact = Idle
    /\ policy = Idle
    /\ brand = Idle
    /\ catalog = Idle
    /\ gather = Idle
    /\ pool = Idle
    /\ store = Idle
    /\ finder = Idle
    /\ run = Idle

NextHandle == HandleCall

\* One call of extract_social_handle on every URL and platform.
SpecHandle == InitHandle /\ [][NextHandle]_vars

\* C12: a call of extract_social_handle returns the path segment after the
\* platform's domain when the URL matches the platform's pattern (the
\* TikTok URL of the test gives "testuser"), and returns its input string
\* unchanged when no handle can be extracted, the input that is not a valid
\* URL ("invalid-url") included.
C12_HandleOrInput ==
    handle.pc = "done" =>
      /\ (handle.url = URL_TIKTOK_TESTUSER /\ handle.platform = "tiktok"
            => handle.result = <<TESTUSER>>)
      /\ (/\ handle.platform \in DOMAIN patterns
          /\ ReSearch(patterns[handle.platform], handle.url) # <<>>
            => handle.result = ReSearch(patterns[handle.platform], handle.url))
      /\ (\/ handle.platform \notin DOMAIN patterns
          \/ ReSearch(patterns[handle.platform], handle.url) = <<>>
            => handle.result = <<handle.url>>)

\* ------------------------------------------------------------------------
\* LLMProcessor.structure_faqs / extract_brand_context / analyze_competitors
\* and the summary of CompetitorAnalyzer.analyze_competitors
\* A reply of the client is kept by what the code asks of it: whether it
\* holds a JSON array, whether the array parses, what its items are, how
\* long its text is.  A text is [src, len]: whose text it is and its
\* length.  A returned value v is held as <<v>>.
\* ------------------------------------------------------------------------

\* `raw_text[:1000]`, line 104
BRAND_CONTEXT_LIMIT == 1000

\* `len(brand_context) > 50`, line 99
MIN_BRAND_REPLY == 50

\* Most FAQs handed to structure_faqs.
MaxRawFaqs == 2

\* Most items of the array in a reply.
MaxReplyItems == 2

\* Most competitors analysed.
MaxCompetitors == 2

\* The items a parsed array can hold:
\*   "faq"            {"question": "...", "answer": "...", ...}
\*   "no_answer"      {"question": "..."}
\*   "not_dict"       a number, a string, a list
\*   "null_question"  {"question": null, "answer": "..."}: FAQSchema(...)
\*                    raises ValidationError
ItemKinds == {"faq", "no_answer", "not_dict", "null_question"}

\* self.client.chat.completions.create(...) raising.
ClientRaises == [kind |-> "raises"]

\* The replies to the prompt of structure_faqs.
FaqReplies ==
    {[kind |-> "content", has_array |-> FALSE, parses |-> FALSE, items |-> <<>>],
     [kind |-> "content", has_array |-> TRUE, parses |-> FALSE, items |-> <<>>]}
    \cup {[kind |-> "content", has_array |-> TRUE, parses |-> TRUE, items |-> it] :
            it \in SeqsUpTo(ItemKinds, MaxReplyItems)}

\* The replies to the other two prompts, by the length of
\* message.content.strip().  max_tokens=500 limits the tokens of a reply,
\* not its characters: a reply of 500 tokens is longer than 1000 characters.
TextReplies ==
    {[kind |-> "content", len |-> n] :
       n \in {0, MIN_BRAND_REPLY, MIN_BRAND_REPLY + 1, BRAND_CONTEXT_LIMIT + 1}}

Replies(fn) ==
    {ClientRaises} \cup (IF fn = "structure_faqs" THEN FaqReplies ELSE TextReplies)

\* The raw FAQ lists: FAQ n of the page.
RawFaqLists == {[i \in 1..k |-> [kind |-> "raw", n |-> i]] : k \in 0..MaxRawFaqs}

\* The raw brand texts, by length.
RawTexts ==
    {[src |-> "raw", len |-> n] :
       n \in {0, 101, BRAND_CONTEXT_LIMIT, BRAND_CONTEXT_LIMIT + 500}}

\* `isinstance(item, dict) and 'question' in item and 'answer' in item`
IsFaqItem(item) == item.kind \in {"faq", "null_question"}

\* Lines 56-72 of structure_faqs: what is returned for a reply.
StructureReply(raw_faqs, reply) ==
    IF reply.kind = "raises" THEN raw_faqs
    ELSE IF ~reply.has_array THEN raw_faqs
    ELSE IF ~reply.parses THEN raw_faqs
    ELSE IF \E i \in 1..Len(reply.items) : reply.items[i] = "null_question"
    THEN raw_faqs
    ELSE SelectSeq([i \in 1..Len(reply.items) |->
                      [kind |-> reply.items[i], n |-> i]], IsFaqItem)

\* text[:n]
Truncate(text, n) == [text EXCEPT !.len = Min(@, n)]

\* Lines 98-104 of extract_brand_context: what is returned for a reply.
BrandReply(raw_text, reply) ==
    IF reply.kind = "content" /\ reply.len > MIN_BRAND_REPLY
    THEN [src |-> "llm", len |-> reply.len]
    ELSE Truncate(raw_text, BRAND_CONTEXT_LIMIT)

\* Lines 139-146 of analyze_competitors: the dict returned for a reply.
\* 'competitive_advantages' is present only in the dict of line 140.
AnalysisReply(reply) ==
    IF reply.kind = "raises"
    THEN [analysis_summary |-> "Error performing competitive analysis",
          has_advantages |-> FALSE]
    ELSE [analysis_summary |-> IF reply.len = 0 THEN "" ELSE "analysis by the LLM",
          has_advantages |-> TRUE]

\* The frame of a call of one of the three methods with the argument raw.
LlmFrame(fn, available, raw) ==
    [pc |-> "call", fn |-> fn, available |-> available, raw |-> raw,
     reply |-> [kind |-> "none"], result |-> <<>>]

\* Is the argument falsy (an empty list, an empty string)?
Falsy(fn, raw) ==
    IF fn = "structure_faqs" THEN raw = <<>> ELSE raw.len = 0

\* The opening test of each method (lines 26-27, 74-75, 106-107): return
\* at once, or send the prompt to the client.
LlmGuard ==
    /\ llm.pc = "call"
    /\ llm' = IF llm.fn = "analyze_competitors"
              THEN IF ~llm.available
                   THEN [llm EXCEPT
                           !.result = <<[analysis_summary |-> "LLM analysis not available",
                                         has_advantages |-> FALSE]>>,
                           !.pc = "done"]
                   ELSE [llm EXCEPT !.pc = "awaiting"]
              ELSE IF ~llm.available \/ Falsy(llm.fn, llm.raw)
                   THEN [llm EXCEPT !.result = <<llm.raw>>, !.pc = "done"]
                   ELSE [llm EXCEPT !.pc = "awaiting"]
    /\ UNCHANGED <<http, pipe, norm, pjson, hero, sim, faq, api,
                   handle, social, links, comp, contact, policy, brand, catalog, gather, pool, store, finder, run>>

\* The client replies or raises, and the method returns.
LlmReply ==
    /\ llm.pc = "awaiting"
    /\ \E reply \in Replies(llm.fn) :
         llm' = [llm EXCEPT
                   !.reply = reply,
                   !.result = CASE llm.fn = "structure_faqs" ->
                                     <<StructureReply(llm.raw, reply)>>
                                [] llm.fn = "extract_brand_context" ->
                                     <<BrandReply(llm.raw, reply)>>
                                [] OTHER -> <<AnalysisReply(reply)>>,
                   !.pc = "done"]
    /\ UNCHANGED <<http, pipe, norm, pjson, hero, sim, faq, api,
                   handle, social, links, comp, contact, policy, brand, catalog, gather, pool, store, finder, run>>

\* _generate_basic_summary(main_brand, competitors): the sentence of line
\* 242 without competitors; with competitors the function builds `summary`
\* and ends without returning it, which yields None (<<>>).
_generate_basic_summary(competitors) ==
    IF competitors = 0 THEN <<"No competitors found for analysis">> ELSE <<>>

\* `a or b` on Optional[str]
StrOr(a, b) == IF a # <<>> /\ a # <<"">> THEN a ELSE b

\* CompetitorAnalyzer.analyze_competitors at line 36, the competitors
\* gathered: `competitors` is how many there are.
CompFrame(competitors) ==
    [pc |-> "enrich", competitors |-> competitors, analysis_summary |-> <<>>,
     summary |-> <<>>]

\* Lines 37-43: with a processor and competitors, await
\* llm_processor.analyze_competitors; otherwise go on to the response.
CompEnrichCall ==
    /\ comp.pc = "enrich"
    /\ IF llm.available /\ comp.competitors > 0
       THEN /\ comp' = [comp EXCEPT !.pc = "awaiting"]
            /\ llm' = LlmFrame("analyze_competitors", llm.available,
                               [src |-> "brands", len |-> comp.competitors])
       ELSE /\ comp' = [comp EXCEPT !.pc = "respond"]
            /\ UNCHANGED llm
    /\ UNCHANGED <<http, pipe, norm, pjson, hero, sim, faq, api,
                   handle, social, links, contact, policy, brand, catalog, gather, pool, store, finder, run>>

\* Line 44: analysis_summary = llm_analysis.get('analysis_summary')
CompEnrichReturn ==
    /\ comp.pc = "awaiting"
    /\ llm.pc = "done"
    /\ comp' = [comp EXCEPT !.analysis_summary = <<llm.result[1].analysis_summary>>,
                            !.pc = "respond"]
    /\ UNCHANGED <<http, pipe, norm, pjson, hero, sim, faq, api,
                   handle, social, links, llm, contact, policy, brand, catalog, gather, pool, store, finder, run>>

\* Lines 51-57: the response, with `analysis_summary or
\* self._generate_basic_summary(...)` for its summary.
CompRespond ==
    /\ comp.pc = "respond"
    /\ comp' = [comp EXCEPT
                  !.summary = StrOr(comp.analysis_summary,
                                    _generate_basic_summary(comp.competitors)),
                  !.pc = "done"]
    /\ UNCHANGED <<http, pipe, norm, pjson, hero, sim, faq, api,
                   handle, social, links, llm, contact, policy, brand, catalog, gather, pool, store, finder, run>>

\* A processor about to be called by an extractor, or an analyzer that has
\* gathered its competitors and holds a processor not in a call.
InitLlm ==
    /\ \/ /\ llm \in {LlmFrame("structure_faqs", a, raw) :
                        a \in BOOLEAN, raw \in RawFaqLists}
                     \cup {LlmFrame("extract_brand_context", a, raw) :
                             a \in BOOLEAN, raw \in RawTexts}
          /\ comp = Idle
       \/ /\ llm \in {[pc |-> "idle", available |-> a] : a \in BOOLEAN}
          /\ comp \in {CompFrame(n) : n \in 0..MaxCompetitors}
    /\ http = Idle /\ pipe = Idle /\ norm = Idle /\ pjson = Idle
    /\ hero = Idle /\ sim = Idle /\ faq = Idle /\ api = Idle
    /\ handle = Idle /\ social = Idle /\ links = Idle
    /\ contact = Idle
    /\ policy = Idle
    /\ brand = Idle
    /\ catalog = Idle
    /\ gather = Idle
    /\ pool = Idle
    /\ store = Idle
    /\ finder = Idle
    /\ run = Idle

NextLlm ==
    \/ LlmGuard
    \/ LlmReply
    \/ CompEnrichCall
    \/ CompEnrichReturn
    \/ CompRespond

\* One use of the processor, against every reply of the client.
SpecLlm == InitLlm /\ [][NextLlm]_vars

\* Is the reply malformed: no JSON array in it, an array that does not
\* parse, or an array none of whose items is an object with both a question
\* and an answer?
Malformed(reply) ==
    /\ reply.kind = "content"
    /\ \/ ~reply.has_array
       \/ ~reply.parses
       \/ /\ Len(reply.items) > 0
          /\ \A i \in 1..Len(reply.items) :
               reply.items[i] \in {"no_answer", "not_dict"}

\* C17: structure_faqs, given a malformed reply, returns the raw list it
\* was called with, so that a non-empty raw list does not come back empty
\* or shorter.
C17_MalformedReplyFallsBack ==
    (llm.pc = "done" /\ llm.fn = "structure_faqs" /\ Malformed(llm.reply))
    => /\ llm.result = <<llm.raw>>
       /\ Len(llm.result[1]) >= Len(llm.raw)

\* C18: when the client raises, the call is not fatal and delivers the
\* value obtained without enrichment: structure_faqs the raw list,
\* extract_brand_context the raw text cut to 1000 characters, and the
\* competitor analysis the summary of _generate_basic_summary.
C18_EnrichmentFailureFallsBack ==
    /\ (llm.pc = "done" /\ llm.reply.kind = "raises" /\ llm.fn = "structure_faqs"
          => llm.result = <<llm.raw>>)
    /\ (llm.pc = "done" /\ llm.reply.kind = "raises"
        /\ llm.fn = "extract_brand_context"
          => llm.result = <<[src |-> "raw",
                             len |-> Min(llm.raw.len, BRAND_CONTEXT_LIMIT)]>>)
    /\ (comp.pc = "done" /\ llm.pc = "done" /\ llm.reply.kind = "raises"
          => comp.summary = _generate_basic_summary(comp.competitors))

\* ------------------------------------------------------------------------
\* SocialExtractor.extract_social_handles
\* Of the page the model keeps the href of each <a href>, in page order.
\* ------------------------------------------------------------------------

\* The keys of social_patterns, in the order the dict lists them (lines
\* 373-381).
social_patterns ==
    <<"instagram", "facebook", "twitter", "tiktok", "youtube", "linkedin", "pinterest">>

\* "https://instagram.com/a"
HREF_INSTAGRAM_A ==
    <<"h", "t", "t", "p", "s", ":", "/", "/", "i", "n", "s", "t", "a",
      "g", "r", "a", "m", ".", "c", "o", "m", "/", "a">>

\* "https://instagram.com/b"
HREF_INSTAGRAM_B ==
    <<"h", "t", "t", "p", "s", ":", "/", "/", "i", "n", "s", "t", "a",
      "g", "r", "a", "m", ".", "c", "o", "m", "/", "b">>

\* "https://tiktok.com/@a"
HREF_TIKTOK_A ==
    <<"h", "t", "t", "p", "s", ":", "/", "/", "t", "i", "k", "t", "o",
      "k", ".", "c", "o", "m", "/", "@", "a">>

\* "/instagram"
HREF_RELATIVE ==
    <<"/", "i", "n", "s", "t", "a", "g", "r", "a", "m">>

\* "https://a.co/instagram"
HREF_SHOP_PAGE ==
    <<"h", "t", "t", "p", "s", ":", "/", "/", "a", ".", "c", "o", "/",
      "i", "n", "s", "t", "a", "g", "r", "a", "m">>

\* "https://facebook.com/Instagram"
HREF_FACEBOOK_PAGE ==
    <<"h", "t", "t", "p", "s", ":", "/", "/", "f", "a", "c", "e", "b",
      "o", "o", "k", ".", "c", "o", "m", "/", "I", "n", "s", "t", "a",
      "g", "r", "a", "m">>

\* The hrefs a page is made of: two Instagram profiles, a TikTok profile,
\* a relative link, a page of the shop and a Facebook page named after
\* Instagram.
SocialHrefs ==
    {HREF_INSTAGRAM_A, HREF_INSTAGRAM_B, HREF_TIKTOK_A, HREF_RELATIVE,
     HREF_SHOP_PAGE, HREF_FACEBOOK_PAGE}

\* Most hyperlinks on a page.
MaxLinks == 3

\* SocialHandlesSchema() with every platform unset (<<>>).
NoHandles == [p \in Platforms |-> <<>>]

\* The inner loop of lines 389-394 for one href: the platforms, in the
\* order of social_patterns, whose name is in the lowered href and for
\* which extract_social_handle returns a truthy handle; the first of them
\* is set and ends the loop.
PlatformSetBy(href) ==
    LET hits == {k \in 1..Len(social_patterns) :
                   /\ Contains(LowerStr(href), PlatformChars[social_patterns[k]])
                   /\ extract_social_handle(href, social_patterns[k]) # <<>>}
    IN IF hits = {} THEN <<>>
       ELSE <<social_patterns[CHOOSE k \in hits : \A l \in hits : k <= l]>>

\* setattr(social_handles, platform, handle), line 393
SetAttr(social_handles, platform, value) ==
    [social_handles EXCEPT ![platform] = value]

RECURSIVE ScanSocial(_, _, _)
\* The loop of lines 386-394 from link k on.
ScanSocial(hrefs, k, social_handles) ==
    IF k > Len(hrefs) THEN social_handles
    ELSE LET p == PlatformSetBy(hrefs[k])
         IN ScanSocial(hrefs, k + 1,
                       IF p = <<>> THEN social_handles
                       ELSE SetAttr(social_handles, p[1],
                                    extract_social_handle(hrefs[k], p[1])))

\* extract_social_handles(soup, base_url), lines 368-396
extract_social_handles(hrefs) == ScanSocial(hrefs, 1, NoHandles)

\* One call extract_social_handles on a page.
SocialCall ==
    /\ social.pc = "call"
    /\ social' = [social EXCEPT !.result = extract_social_handles(social.hrefs),
                                !.pc = "done"]
    /\ UNCHANGED <<http, pipe, norm, pjson, hero, sim, faq, api,
                   handle, links, llm, comp, contact, policy, brand, catalog, gather, pool, store, finder, run>>

InitSocial ==
    /\ social \in {[pc |-> "call", hrefs |-> h, result |-> NoHandles] :
                     h \in SeqsUpTo(SocialHrefs, MaxLinks)}
    /\ http = Idle /\ pipe = Idle /\ norm = Idle /\ pjson = Idle
    /\ hero = Idle /\ sim = Idle /\ faq = Idle /\ api = Idle
    /\ handle = Idle /\ links = Idle /\ llm = Idle /\ comp = Idle
    /\ contact = Idle
    /\ policy = Idle
    /\ brand = Idle
    /\ catalog = Idle
    /\ gather = Idle
    /\ pool = Idle
    /\ store = Idle
    /\ finder = Idle
    /\ run = Idle

NextSocial == SocialCall

\* One scan of every page of at most MaxLinks hyperlinks.
SpecSocial == InitSocial /\ [][NextSocial]_vars

\* The positions of the links that match platform p.
MatchingLinks(hrefs, p) == {k \in 1..Len(hrefs) : PlatformSetBy(hrefs[k]) = <<p>>}

\* C19: for each platform the handle in the result is the one extracted
\* from the first link, in page order, that matches the platform, and the
\* platform is unset when no link matches: a later link does not overwrite
\* a handle that is set.
C19_FirstLinkWins ==
    social.pc = "done" =>
      \A p \in Platforms :
        LET m == MatchingLinks(social.hrefs, p)
        IN social.result[p] =
             IF m = {} THEN <<>>
             ELSE extract_social_handle(
                    social.hrefs[CHOOSE k \in m : \A l \in m : k <= l], p)

\* ------------------------------------------------------------------------
\* LinkExtractor.extract_important_links
\* Of the page the model keeps, for each <a href>, its text (stripped) and
\* its href, in page order.
\* ------------------------------------------------------------------------

\* link_patterns, in the order the dict lists them (lines 457-465).
link_patterns ==
    <<
      [link_type |-> "order_tracking",
       keywords |-> {<<"t", "r", "a", "c", "k">>,
                     <<"o", "r", "d", "e", "r">>,
                     <<"t", "r", "a", "c", "k", "i", "n", "g">>}],
      [link_type |-> "contact_us",
       keywords |-> {<<"c", "o", "n", "t", "a", "c", "t">>,
                     <<"s", "u", "p", "p", "o", "r", "t">>,
                     <<"h", "e", "l", "p">>}],
      [link_type |-> "blogs",
       keywords |-> {<<"b", "l", "o", "g">>,
                     <<"n", "e", "w", "s">>,
                     <<"a", "r", "t", "i", "c", "l", "e", "s">>}],
      [link_type |-> "size_guide",
       keywords |-> {<<"s", "i", "z", "e">>,
                     <<"g", "u", "i", "d", "e">>,
                     <<"s", "i", "z", "i", "n", "g">>}],
      [link_type |-> "shipping_info",
       keywords |-> {<<"s", "h", "i", "p", "p", "i", "n", "g">>,
                     <<"d", "e", "l", "i", "v", "e", "r", "y">>}],
      [link_type |-> "careers",
       keywords |-> {<<"c", "a", "r", "e", "e", "r">>,
                     <<"j", "o", "b">>,
                     <<"w", "o", "r", "k">>}],
      [link_type |-> "about_us",
       keywords |-> {<<"a", "b", "o", "u", "t">>,
                     <<"s", "t", "o", "r", "y">>,
                     <<"c", "o", "m", "p", "a", "n", "y">>}]
    >>

\* base_url: the normalized URL of the shop.
LINK_BASE_URL == <<"h", "t", "t", "p", "s", ":", "/", "/", "a", ".", "c", "o">>

\* <a href="/pages/x">Order help</a>
LINK_ORDER_HELP ==
    [text |-> <<"O", "r", "d", "e", "r", " ", "h", "e", "l", "p">>,
     href |-> <<"/", "p", "a", "g", "e", "s", "/", "x">>]

\* <a href="/pages/contact">Contact</a>
LINK_CONTACT ==
    [text |-> <<"C", "o", "n", "t", "a", "c", "t">>,
     href |-> <<"/", "p", "a", "g", "e", "s", "/", "c", "o", "n", "t",
                "a", "c", "t">>]

\* <a href="https://t.co/track">Track</a>
LINK_TRACK ==
    [text |-> <<"T", "r", "a", "c", "k">>,
     href |-> <<"h", "t", "t", "p", "s", ":", "/", "/", "t", ".", "c",
                "o", "/", "t", "r", "a", "c", "k">>]

\* <a href="/">Home</a>
LINK_HOME ==
    [text |-> <<"H", "o", "m", "e">>,
     href |-> <<"/">>]

\* <a href="/blogs/News">Read</a>
LINK_NEWS ==
    [text |-> <<"R", "e", "a", "d">>,
     href |-> <<"/", "b", "l", "o", "g", "s", "/", "N", "e", "w", "s">>]

\* <a href="/pages/us">About</a>
LINK_ABOUT ==
    [text |-> <<"A", "b", "o", "u", "t">>,
     href |-> <<"/", "p", "a", "g", "e", "s", "/", "u", "s">>]

\* The hyperlinks a page is made of.
PageLinks ==
    {LINK_ORDER_HELP, LINK_CONTACT, LINK_TRACK, LINK_HOME, LINK_NEWS, LINK_ABOUT}

\* Lines 475-476: `if href.startswith('/'): href = urljoin(base_url, href)`.
\* The base has no path, so the joined URL is the base followed by the
\* href.
AbsoluteHref(base_url, href) ==
    IF StartsWith(href, <<"/">>) THEN base_url \o href ELSE href

\* Line 480: does a keyword of the category occur in the text or in
\* href.lower()?
MatchesCategory(k, text, href_lower) ==
    \E keyword \in link_patterns[k].keywords :
      Contains(text, keyword) \/ Contains(href_lower, keyword)

\* ImportantLinksSchema() with every category unset (<<>>).
NoLinks == [c \in LinkCategories |-> <<>>]

\* Lines 479-483 for one link: the categories are tried in order; one that
\* matches and is already set is passed over, the first that matches and
\* is unset takes the href and ends the loop.
AssignLink(result, link) ==
    LET text == LowerStr(link.text)
        href == AbsoluteHref(LINK_BASE_URL, link.href)
        href_lower == LowerStr(href)
        free == {k \in 1..Len(link_patterns) :
                   /\ MatchesCategory(k, text, href_lower)
                   /\ result[link_patterns[k].link_type] = <<>>}
    IN IF free = {} THEN result
       ELSE [result EXCEPT
               ![link_patterns[CHOOSE k \in free : \A l \in free : k <= l].link_type]
                  = <<href>>]

RECURSIVE ScanLinks(_, _, _)
\* The loop of lines 470-483 from link k on.
ScanLinks(all_links, k, result) ==
    IF k > Len(all_links) THEN result
    ELSE ScanLinks(all_links, k + 1, AssignLink(result, all_links[k]))

\* extract_important_links(soup, base_url), lines 452-485
extract_important_links(all_links) == ScanLinks(all_links, 1, NoLinks)

\* One call extract_important_links on a page.
LinksCall ==
    /\ links.pc = "call"
    /\ links' = [links EXCEPT !.result = extract_important_links(links.all_links),
                              !.pc = "done"]
    /\ UNCHANGED <<http, pipe, norm, pjson, hero, sim, faq, api,
                   handle, social, llm, comp, contact, policy, brand, catalog, gather, pool, store, finder, run>>

InitLinks ==
    /\ links \in {[pc |-> "call", all_links |-> l, result |-> NoLinks] :
                    l \in SeqsUpTo(PageLinks, MaxLinks)}
    /\ http = Idle /\ pipe = Idle /\ norm = Idle /\ pjson = Idle
    /\ hero = Idle /\ sim = Idle /\ faq = Idle /\ api = Idle
    /\ handle = Idle /\ social = Idle /\ llm = Idle /\ comp = Idle
    /\ contact = Idle
    /\ policy = Idle
    /\ brand = Idle
    /\ catalog = Idle
    /\ gather = Idle
    /\ pool = Idle
    /\ store = Idle
    /\ finder = Idle
    /\ run = Idle

NextLinks == LinksCall

\* One scan of every page of at most MaxLinks hyperlinks.
SpecLinks == InitLinks /\ [][NextLinks]_vars

\* The positions of the links whose text or href holds a keyword of the
\* category at position k of link_patterns.
LinksMatching(all_links, k) ==
    {i \in 1..Len(all_links) :
       MatchesCategory(k, LowerStr(all_links[i].text),
                       LowerStr(AbsoluteHref(LINK_BASE_URL, all_links[i].href)))}

\* C20: for each category the URL in the result is that of the first link,
\* in page order, whose text or href holds one of the category's keywords,
\* whether or not that link matches another category as well, and the
\* category is unset only when no link matches it.
C20_FirstLinkPerCategory ==
    links.pc = "done" =>
      \A k \in 1..Len(link_patterns) :
        LET m == LinksMatching(links.all_links, k)
        IN links.result[link_patterns[k].link_type] =
             IF m = {} THEN <<>>
             ELSE <<AbsoluteHref(LINK_BASE_URL,
                      links.all_links[CHOOSE i \in m : \A j \in m : i <= j].href)>>

(***************************************************************************)
(* ContactExtractor.extract_contact_details (services/extractors.py).      *)
(*                                                                         *)
(* The texts of the landing page and of the contact page are given by the  *)
(* matches re.findall finds in them, in order.  A match is an atomic       *)
(* string; the validators and str.strip are given by their values on the   *)
(* matches used.                                                           *)
(***************************************************************************)

\* The slice of line 414 and 438.
EMAIL_LIMIT == 5

\* The slice of line 419 and 439.
PHONE_LIMIT == 3

\* Matches of email_pattern: two addresses, and one that the pattern takes
\* (its last class holds '|') and validate_email refuses.
EmailMatches == {"a@x.co", "b@x.co", "c@x.c|d"}

\* Matches of phone_pattern: the class [\d\s\-$] takes the blanks around a
\* number, so a number between blanks is matched with them; a number after
\* ':' and before the end is matched bare; a run of dashes is matched too.
PhoneMatches == {" 5551234567 ", "5551234567", " ------- "}

\* Longest list of email matches in one text.
MaxEmailMatches == 3

\* Longest list of phone matches in one text.
MaxPhoneMatches == 2

validate_email(email) == email # "c@x.c|d"

validate_phone_number(phone) == phone # " ------- "

\* str.strip on the matches of PhoneMatches.
Strip(phone) ==
    CASE phone = " 5551234567 " -> "5551234567"
      [] phone = " ------- " -> "-------"
      [] OTHER -> phone

\* [x for x in seq if keep(x)], for keep given as the set of kept values.
Filter(seq, kept) == SelectSeq(seq, LAMBDA x : x \in kept)

\* [f(x) for x in seq] for f = str.strip.
StripAll(seq) == [i \in 1..Len(seq) |-> Strip(seq[i])]

\* Line 414: the valid emails of the landing page, the first five.
MainEmails(matches) ==
    Take(Filter(matches, {e \in EmailMatches : validate_email(e)}), EMAIL_LIMIT)

\* Line 419: the valid phone numbers of the landing page, stripped, the
\* first three.
MainPhones(matches) ==
    Take(StripAll(Filter(matches, {p \in PhoneMatches : validate_phone_number(p)})),
         PHONE_LIMIT)

\* Line 434: the comprehension is evaluated against the list as it is
\* before extend, so a new address listed twice passes the test twice.
ExtendEmails(emails, additional) ==
    emails \o Filter(additional, {e \in EmailMatches :
                                    validate_email(e) /\ e \notin Range(emails)})

\* Line 435: the test is on the match as found, the list holds stripped
\* values.
ExtendPhones(phone_numbers, additional) ==
    phone_numbers \o
      StripAll(Filter(additional, {p \in PhoneMatches :
                         validate_phone_number(p) /\ p \notin Range(phone_numbers)}))

ContactFrame(main_emails, main_phones) ==
    [pc |-> "main", main_emails |-> main_emails, main_phones |-> main_phones,
     emails |-> <<>>, phone_numbers |-> <<>>,
     own_emails |-> 0, own_phones |-> 0, contact_page |-> "unfetched"]

\* Lines 409-419: the landing page.
ContactMain ==
    /\ contact.pc = "main"
    /\ contact' = [contact EXCEPT
                     !.emails = MainEmails(contact.main_emails),
                     !.phone_numbers = MainPhones(contact.main_phones),
                     !.own_emails = Len(MainEmails(contact.main_emails)),
                     !.own_phones = Len(MainPhones(contact.main_phones)),
                     !.pc = "fetch"]
    /\ UNCHANGED <<http, pipe, norm, pjson, hero, sim, faq, api,
                   handle, social, links, llm, comp, policy, brand, catalog, gather, pool, store, finder, run>>

\* Lines 422-444: the contact page could not be fetched (get_page_content
\* returned None, or '' for an empty body): the lists stay as they are.
ContactPageMissing ==
    /\ contact.pc = "fetch"
    /\ contact' = [contact EXCEPT !.contact_page = "missing", !.pc = "done"]
    /\ UNCHANGED <<http, pipe, norm, pjson, hero, sim, faq, api,
                   handle, social, links, llm, comp, policy, brand, catalog, gather, pool, store, finder, run>>

\* Lines 422-444: the contact page was fetched; its matches are merged and
\* both lists are cut.
ContactPageMerged ==
    /\ contact.pc = "fetch"
    /\ \E additional_emails \in SeqsUpTo(EmailMatches, MaxEmailMatches),
          additional_phones \in SeqsUpTo(PhoneMatches, MaxPhoneMatches) :
         contact' = [contact EXCEPT
             !.emails = Take(ExtendEmails(@, additional_emails), EMAIL_LIMIT),
             !.phone_numbers = Take(ExtendPhones(@, additional_phones), PHONE_LIMIT),
             !.contact_page = "fetched",
             !.pc = "done"]
    /\ UNCHANGED <<http, pipe, norm, pjson, hero, sim, faq, api,
                   handle, social, links, llm, comp, policy, brand, catalog, gather, pool, store, finder, run>>

InitContact ==
    /\ contact \in {ContactFrame(e, p) :
                      e \in SeqsUpTo(EmailMatches, MaxEmailMatches),
                      p \in SeqsUpTo(PhoneMatches, MaxPhoneMatches)}
    /\ http = Idle /\ pipe = Idle /\ norm = Idle /\ pjson = Idle
    /\ hero = Idle /\ sim = Idle /\ faq = Idle /\ api = Idle
    /\ handle = Idle /\ social = Idle /\ links = Idle /\ llm = Idle
    /\ comp = Idle
    /\ policy = Idle
    /\ brand = Idle
    /\ catalog = Idle
    /\ gather = Idle
    /\ pool = Idle
    /\ store = Idle
    /\ finder = Idle
    /\ run = Idle

NextContact == ContactMain \/ ContactPageMissing \/ ContactPageMerged

\* One extraction of the contact details, against every pair of pages.
SpecContact == InitContact /\ [][NextContact]_vars

\* The entries of a list from position n + 1 on occur once in the list.
AddedOnce(list, n) ==
    \A i \in (n + 1)..Len(list) : \A j \in 1..Len(list) : list[j] = list[i] => j = i

\* C21: after extract_contact_details, with or without the contact page,
\* the result holds at most 5 emails and at most 3 phone numbers, and no
\* value contributed by the contact page occurs twice in the merged list.
C21_ContactCappedAndDeduplicated ==
    contact.pc = "done" =>
      /\ Len(contact.emails) <= EMAIL_LIMIT
      /\ Len(contact.phone_numbers) <= PHONE_LIMIT
      /\ AddedOnce(contact.emails, contact.own_emails)
      /\ AddedOnce(contact.phone_numbers, contact.own_phones)

(***************************************************************************)
(* PolicyExtractor._extract_policy (services/extractors.py).               *)
(*                                                                         *)
(* A fetched page is given by the length of the stripped text of the first *)
(* content element a selector finds (<<>> when no selector finds one) and  *)
(* the length of the stripped text of the whole page.                      *)
(***************************************************************************)

\* The length of line 272.
POLICY_MIN_LENGTH == 100

\* policy_urls of extract_all_policies, lines 221-226.
policy_urls ==
    [t \in PolicyTypes |->
       CASE t = "privacy" -> <<"/pages/privacy-policy", "/privacy-policy", "/privacy">>
         [] t = "return" -> <<"/pages/return-policy", "/return-policy", "/returns">>
         [] t = "refund" -> <<"/pages/refund-policy", "/refund-policy", "/refunds">>
         [] t = "terms" -> <<"/pages/terms-of-service", "/terms-of-service", "/terms">>]

\* Lengths of texts, around the length of line 272.
TextLengths ==
    {0, POLICY_MIN_LENGTH - 1, POLICY_MIN_LENGTH, POLICY_MIN_LENGTH + 1}

\* The pages a path can answer with; the text of the page holds the text of
\* its element.
PolicyPages ==
    {page \in [elem : {<<>>} \cup {<<k>> : k \in TextLengths}, text : TextLengths] :
       page.elem = <<>> \/ page.elem[1] <= page.text}

\* What get_page_content gives for a path: None, or a page.
PolicyContents == {<<>>} \cup {<<p>> : p \in PolicyPages}

\* Lines 260-269: the text of the first element found, the text of the
\* page when there is none or it is empty.
PolicyContentLength(page) ==
    IF page.elem # <<>> /\ page.elem[1] > 0 THEN page.elem[1] ELSE page.text

\* Line 272.
LongEnough(policy_content_length) == policy_content_length > POLICY_MIN_LENGTH

PolicyFrame(policy_type) ==
    [pc |-> "loop", policy_type |-> policy_type, url_patterns |-> policy_urls[policy_type],
     i |-> 1, fetched |-> <<>>, result |-> <<>>]

\* Lines 242-276: one iteration of the loop over the patterns.
PolicyTryPattern ==
    /\ policy.pc = "loop"
    /\ policy.i <= Len(policy.url_patterns)
    /\ \E content \in PolicyContents :
         LET length == IF content = <<>> THEN 0 ELSE PolicyContentLength(content[1])
             found == content # <<>> /\ LongEnough(length)
         IN  policy' = [policy EXCEPT
               !.fetched = Append(@, [pattern |-> policy.url_patterns[policy.i],
                                      fetched |-> content # <<>>,
                                      length |-> length]),
               !.result = IF found
                          THEN <<[url |-> policy.url_patterns[policy.i],
                                  length |-> length]>>
                          ELSE <<>>,
               !.i = @ + 1,
               !.pc = IF found THEN "done" ELSE "loop"]
    /\ UNCHANGED <<http, pipe, norm, pjson, hero, sim, faq, api,
                   handle, social, links, llm, comp, contact, brand, catalog, gather, pool, store, finder, run>>

\* Line 282: the patterns are used up.
PolicyReturnNone ==
    /\ policy.pc = "loop"
    /\ policy.i > Len(policy.url_patterns)
    /\ policy' = [policy EXCEPT !.result = <<>>, !.pc = "done"]
    /\ UNCHANGED <<http, pipe, norm, pjson, hero, sim, faq, api,
                   handle, social, links, llm, comp, contact, brand, catalog, gather, pool, store, finder, run>>

InitPolicy ==
    /\ policy \in {PolicyFrame(t) : t \in PolicyTypes}
    /\ http = Idle /\ pipe = Idle /\ norm = Idle /\ pjson = Idle
    /\ hero = Idle /\ sim = Idle /\ faq = Idle /\ api = Idle
    /\ handle = Idle /\ social = Idle /\ links = Idle /\ llm = Idle
    /\ comp = Idle /\ contact = Idle
    /\ brand = Idle
    /\ catalog = Idle
    /\ gather = Idle
    /\ pool = Idle
    /\ store = Idle
    /\ finder = Idle
    /\ run = Idle

NextPolicy == PolicyTryPattern \/ PolicyReturnNone

\* One extraction of one policy, against every answer of the site.
SpecPolicy == InitPolicy /\ [][NextPolicy]_vars

\* The fetches whose page gave a text of at least POLICY_MIN_LENGTH.
ReachedLength(fetched) ==
    {k \in 1..Len(fetched) : fetched[k].fetched /\ fetched[k].length >= POLICY_MIN_LENGTH}

\* C22: _extract_policy returns the policy of the first path whose page
\* yields a text of length >= 100 (exactly 100 is accepted) and fetches no
\* later path; it returns no policy only when no path reaches that length.
C22_FirstPathOfLength100 ==
    policy.pc = "done" =>
      IF ReachedLength(policy.fetched) = {}
      THEN policy.result = <<>>
      ELSE /\ ReachedLength(policy.fetched) = {Len(policy.fetched)}
           /\ policy.result # <<>>
           /\ policy.result[1].url = policy.fetched[Len(policy.fetched)].pattern

(***************************************************************************)
(* BrandContextExtractor.extract_brand_context (services/extractors.py).   *)
(*                                                                         *)
(* A page is given by the lengths of the stripped texts of the elements    *)
(* its selectors find, in the order of the selectors.  A text is           *)
(* [src, len] as for the processor; the value returned is <<text>>, or     *)
(* <<>> for None.                                                          *)
(***************************************************************************)

\* about_urls, line 498.
about_urls == <<"/pages/about", "/pages/about-us", "/about", "/story">>

\* `len(text) > 100`, line 519.
ABOUT_MIN_TEXT == 100

\* `len(text) > 50`, line 537.
HERO_MIN_TEXT == 50

\* `text[:500]`, line 538.
HERO_CONTEXT_LIMIT == 500

\* Most elements the selectors find in one page.
MaxElems == 2

\* Lengths of the texts of the elements of an about page.
AboutLengths == {0, ABOUT_MIN_TEXT, ABOUT_MIN_TEXT + 1, BRAND_CONTEXT_LIMIT + 500}

\* Lengths of the texts of the hero elements of the landing page.
HeroLengths == {0, HERO_MIN_TEXT, HERO_MIN_TEXT + 1, HERO_CONTEXT_LIMIT + 1}

\* What get_page_content gives for an about path: None, or a page.
AboutContents == {<<>>} \cup {<<p>> : p \in SeqsUpTo(AboutLengths, MaxElems)}

\* Position of the first element longer than n, 0 when there is none.
FirstLonger(elems, n) ==
    IF \E k \in 1..Len(elems) : elems[k] > n
    THEN CHOOSE k \in 1..Len(elems) :
           elems[k] > n /\ \A j \in 1..(k - 1) : elems[j] <= n
    ELSE 0

\* LLMProcessor.extract_brand_context(raw_text) of an available processor
\* for a reply of the client: raw_text is not empty here.
ProcessorBrandContext(raw_text, reply) == BrandReply(raw_text, reply)

BrandFrame(llm_available, hero_elems) ==
    [pc |-> "about", llm_available |-> llm_available, hero_elems |-> hero_elems,
     i |-> 1, from |-> "none", enriched |-> FALSE, result |-> <<>>]

\* Lines 500-522, without the processor: the first element longer than 100
\* characters is returned cut to 1000; a page without one, or no page,
\* leads to the next path.
BrandTryAboutPlain ==
    /\ brand.pc = "about"
    /\ brand.i <= Len(about_urls)
    /\ ~brand.llm_available
    /\ \E content \in AboutContents :
         LET k == IF content = <<>> THEN 0 ELSE FirstLonger(content[1], ABOUT_MIN_TEXT)
         IN  brand' = IF k = 0
                      THEN [brand EXCEPT !.i = @ + 1]
                      ELSE [brand EXCEPT
                              !.result = <<Truncate([src |-> "raw", len |-> content[1][k]],
                                                    BRAND_CONTEXT_LIMIT)>>,
                              !.from = "about",
                              !.pc = "done"]
    /\ UNCHANGED <<http, pipe, norm, pjson, hero, sim, faq, api,
                   handle, social, links, llm, comp, contact, policy, catalog, gather, pool, store, finder, run>>

\* Lines 500-521, with the processor: the first element longer than 100
\* characters is handed to the processor and what it returns is returned.
BrandTryAboutEnriched ==
    /\ brand.pc = "about"
    /\ brand.i <= Len(about_urls)
    /\ brand.llm_available
    /\ \E content \in AboutContents, reply \in Replies("extract_brand_context") :
         LET k == IF content = <<>> THEN 0 ELSE FirstLonger(content[1], ABOUT_MIN_TEXT)
         IN  brand' = IF k = 0
                      THEN [brand EXCEPT !.i = @ + 1]
                      ELSE [brand EXCEPT
                              !.result = <<ProcessorBrandContext(
                                             [src |-> "raw", len |-> content[1][k]], reply)>>,
                              !.from = "about",
                              !.enriched = TRUE,
                              !.pc = "done"]
    /\ UNCHANGED <<http, pipe, norm, pjson, hero, sim, faq, api,
                   handle, social, links, llm, comp, contact, policy, catalog, gather, pool, store, finder, run>>

\* Lines 528-543: the landing page, when no about path gave a text.
BrandFallback ==
    /\ brand.pc = "about"
    /\ brand.i > Len(about_urls)
    /\ LET k == FirstLonger(brand.hero_elems, HERO_MIN_TEXT)
       IN  brand' = IF k = 0
                    THEN [brand EXCEPT !.result = <<>>, !.pc = "done"]
                    ELSE [brand EXCEPT
                            !.result = <<Truncate([src |-> "raw", len |-> brand.hero_elems[k]],
                                                  HERO_CONTEXT_LIMIT)>>,
                            !.from = "landing",
                            !.pc = "done"]
    /\ UNCHANGED <<http, pipe, norm, pjson, hero, sim, faq, api,
                   handle, social, links, llm, comp, contact, policy, catalog, gather, pool, store, finder, run>>

InitBrand ==
    /\ brand \in {BrandFrame(a, h) : a \in BOOLEAN, h \in SeqsUpTo(HeroLengths, MaxElems)}
    /\ http = Idle /\ pipe = Idle /\ norm = Idle /\ pjson = Idle
    /\ hero = Idle /\ sim = Idle /\ faq = Idle /\ api = Idle
    /\ handle = Idle /\ social = Idle /\ links = Idle /\ llm = Idle
    /\ comp = Idle /\ contact = Idle /\ policy = Idle
    /\ catalog = Idle
    /\ gather = Idle
    /\ pool = Idle
    /\ store = Idle
    /\ finder = Idle
    /\ run = Idle

NextBrand == BrandTryAboutPlain \/ BrandTryAboutEnriched \/ BrandFallback

\* One extraction of the brand context, against every answer of the site
\* and of the client.
SpecBrand == InitBrand /\ [][NextBrand]_vars

\* C23: the brand context returned is at most 1000 characters long when it
\* comes from an about page, with or without enrichment, and at most 500
\* characters long when it comes from the landing page.
C23_BrandContextBounded ==
    brand.pc = "done" /\ brand.result # <<>> =>
      /\ brand.from = "about" => brand.result[1].len <= BRAND_CONTEXT_LIMIT
      /\ brand.from = "landing" => brand.result[1].len <= HERO_CONTEXT_LIMIT

(***************************************************************************)
(* ProductExtractor.extract_all_products (services/extractors.py).         *)
(*                                                                         *)
(* Every non-empty page of the catalog holds the same number of products;  *)
(* a product is [page, n, parses]: its page, its place in the page and     *)
(* whether _parse_product_json makes a product of it (it returns None      *)
(* when it does not).  What the endpoint answers for a page is free.       *)
(***************************************************************************)

\* `if page > 100`, line 58.
PAGE_CEILING == 100

\* Most products in one page of the catalog.
MaxPageSize == 2

\* What get_json gives for a page:
\*   "full"     {"products": [p, ...]}
\*   "empty"    {"products": []}
\*   "missing"  a dict without 'products', or an empty dict
\*   "failed"   None: a 404, invalid JSON or every attempt failed
\*   "raises"   {"products": 5}: iterating it raises TypeError (line 62)
PageKinds == {"full", "empty", "missing", "failed", "raises"}

\* The layouts of a non-empty page: for each product, whether it parses.
PageLayouts == SeqsUpTo(BOOLEAN, MaxPageSize) \ {<<>>}

\* content['products'] of a full page.
PageProducts(layout, page) ==
    [n \in 1..Len(layout) |-> [page |-> page, n |-> n, parses |-> layout[n]]]

\* Lines 50-53: the products of the page that parse, in order.
ParsedProducts(page_products) == SelectSeq(page_products, LAMBDA p : p.parses)

\* Line 58, one page late.
PastCeilingLate(page) == page > PAGE_CEILING + 1

\* Line 58.
PastCeiling(page) == page > PAGE_CEILING

CatalogFrame(layout) ==
    [pc |-> "loop", layout |-> layout, page |-> 1, requested |-> <<>>,
     products |-> <<>>, result |-> <<>>]

\* Lines 38-63: one iteration of `while True`.
CatalogPage ==
    /\ catalog.pc = "loop"
    /\ \E kind \in PageKinds :
         LET seen == Append(catalog.requested, [page |-> catalog.page, kind |-> kind])
         IN  catalog' =
               IF kind = "full"
               THEN [catalog EXCEPT
                       !.requested = seen,
                       !.products = @ \o ParsedProducts(
                                           PageProducts(catalog.layout, catalog.page)),
                       !.page = @ + 1,
                       !.pc = IF PastCeiling(catalog.page + 1) THEN "return" ELSE "loop"]
               ELSE [catalog EXCEPT !.requested = seen, !.pc = "return"]
    /\ UNCHANGED <<http, pipe, norm, pjson, hero, sim, faq, api,
                   handle, social, links, llm, comp, contact, policy, brand, gather, pool, store, finder, run>>

\* Lines 65-66.
CatalogReturn ==
    /\ catalog.pc = "return"
    /\ catalog' = [catalog EXCEPT !.result = catalog.products, !.pc = "done"]
    /\ UNCHANGED <<http, pipe, norm, pjson, hero, sim, faq, api,
                   handle, social, links, llm, comp, contact, policy, brand, gather, pool, store, finder, run>>

InitCatalog ==
    /\ catalog \in {CatalogFrame(l) : l \in PageLayouts}
    /\ http = Idle /\ pipe = Idle /\ norm = Idle /\ pjson = Idle
    /\ hero = Idle /\ sim = Idle /\ faq = Idle /\ api = Idle
    /\ handle = Idle /\ social = Idle /\ links = Idle /\ llm = Idle
    /\ comp = Idle /\ contact = Idle /\ policy = Idle /\ brand = Idle
    /\ gather = Idle
    /\ pool = Idle
    /\ store = Idle
    /\ finder = Idle
    /\ run = Idle

NextCatalog == CatalogPage \/ CatalogReturn

\* One reading of the catalog, against every behaviour of the endpoint.
SpecCatalog == InitCatalog /\ [][NextCatalog]_vars

\* The parsed products of the pages 1..n of a catalog of full pages.
RECURSIVE ProductsOfPages(_, _)
ProductsOfPages(layout, n) ==
    IF n = 0 THEN <<>>
    ELSE ProductsOfPages(layout, n - 1) \o ParsedProducts(PageProducts(layout, n))

\* C24: the pages are requested in the order 1, 2, 3, ..., never more than
\* 100 of them; every page before the last one requested was full; the
\* reading stops at the first page that is empty, without the list or
\* failed, or after page 100; the products returned are those of all the
\* pages read before the stop.
C24_CatalogPagination ==
    LET req == catalog.requested
        n == Len(req)
        full == {k \in 1..n : req[k].kind = "full"}
    IN  /\ n <= PAGE_CEILING
        /\ \A k \in 1..n : req[k].page = k
        /\ 1..(n - 1) \subseteq full
        /\ catalog.pc = "loop" => full = 1..n
        /\ catalog.pc \in {"return", "done"} => n >= 1 /\ (n \in full => n = PAGE_CEILING)
        /\ catalog.pc = "done" =>
             catalog.result = ProductsOfPages(catalog.layout, Cardinality(full))

\* A catalog that never answers an empty page has been read up to the
\* ceiling and its products returned.
C24_Witness ==
    /\ catalog.pc = "done"
    /\ Len(catalog.requested) = PAGE_CEILING
    /\ \A k \in 1..PAGE_CEILING : catalog.requested[k].kind = "full"
    /\ Len(catalog.result) = PAGE_CEILING

(***************************************************************************)
(* The fan-out and the merge of ShopifyStoreScraper.extract_insights       *)
(* (services/scraper.py:40-76), with the order in which the tasks complete *)
(* kept: `order` lists the positions of the tasks as they complete and     *)
(* `outcome` holds what each task returned.                                *)
(***************************************************************************)

\* The results in the order of completion for the two product tasks (what
\* asyncio.as_completed would give), by position for the others.
GatherAsCompleted(outcome, order) ==
    LET first == CHOOSE k \in 1..Len(order) :
                   order[k] \in {1, 2} /\ \A j \in 1..(k - 1) : order[j] \notin {1, 2}
    IN  [i \in 1..NumTasks |->
           IF i = 1 THEN outcome[order[first]]
           ELSE IF i = 2 THEN outcome[3 - order[first]]
           ELSE outcome[i]]

\* asyncio.gather(*extraction_tasks, return_exceptions=True), line 50: the
\* list of the results in the order of the awaitables passed, whatever the
\* order in which they complete.
Gather(outcome, order) == [i \in 1..NumTasks |-> outcome[i]]

\* The landing page has been parsed and the eight tasks are started.
GatherFrame(brand_name) ==
    [pc |-> "fanout", brand_name |-> brand_name,
     normalized_url |-> HTTPS_PREFIX \o <<"a">>,
     outcome |-> [i \in 1..NumTasks |-> Running], order |-> <<>>,
     results |-> <<>>, record |-> <<>>]

\* One of the tasks still running completes.
GatherTaskDone ==
    /\ gather.pc = "fanout"
    /\ \E i \in 1..NumTasks :
         /\ gather.outcome[i] = Running
         /\ \E r \in TaskReturns[i] :
              gather' = [gather EXCEPT !.outcome[i] = r, !.order = Append(@, i)]
    /\ UNCHANGED <<http, pipe, norm, pjson, hero, sim, faq, api,
                   handle, social, links, llm, comp, contact, policy, brand, catalog, pool, store, finder, run>>

\* Lines 50-77: gather returns once every task has completed; its list is
\* unpacked by position, the defaults are substituted and the record built.
GatherMerge ==
    /\ gather.pc = "fanout"
    /\ \A i \in 1..NumTasks : gather.outcome[i] # Running
    /\ LET results == Gather(gather.outcome, gather.order)
           m == [i \in 1..NumTasks |-> OrDefault(results[i], TaskDefault[i])]
       IN  \E now \in 1..MaxClock :
             gather' = [gather EXCEPT
                          !.results = results,
                          !.record = <<BuildInsights(gather.brand_name,
                                                     gather.normalized_url, m, now)>>,
                          !.pc = "done"]
    /\ UNCHANGED <<http, pipe, norm, pjson, hero, sim, faq, api,
                   handle, social, links, llm, comp, contact, policy, brand, catalog, pool, store, finder, run>>

InitGather ==
    /\ gather \in {GatherFrame(b) : b \in {None, "Brand"}}
    /\ http = Idle /\ pipe = Idle /\ norm = Idle /\ pjson = Idle
    /\ hero = Idle /\ sim = Idle /\ faq = Idle /\ api = Idle
    /\ handle = Idle /\ social = Idle /\ links = Idle /\ llm = Idle
    /\ comp = Idle /\ contact = Idle /\ policy = Idle /\ brand = Idle
    /\ catalog = Idle
    /\ pool = Idle
    /\ store = Idle
    /\ finder = Idle
    /\ run = Idle

NextGather == GatherTaskDone \/ GatherMerge

\* The eight tasks completing in every order.
SpecGather == InitGather /\ [][NextGather]_vars

\* C25: whatever the order in which the eight tasks complete, each field of
\* the record holds the result of its own task and never that of another
\* task, so the record depends on the results only.
C25_MergeByField ==
    gather.pc = "done" =>
      LET rec == gather.record[1]
          own == gather.outcome
      IN  /\ rec.product_catalog = own[1].v
          /\ rec.hero_products = own[2].v
          /\ rec.privacy_policy = DictGet(own[3].v, "privacy")
          /\ rec.return_policy = DictGet(own[3].v, "return")
          /\ rec.refund_policy = DictGet(own[3].v, "refund")
          /\ rec.terms_of_service = DictGet(own[3].v, "terms")
          /\ rec.faqs = own[4].v
          /\ rec.social_handles = own[5].v
          /\ rec.contact_details = own[6].v
          /\ rec.important_links = own[7].v
          /\ rec.brand_context = own[8].v

\* The tasks completed in the reverse of their order in the list, and the
\* record is built.
C25_Witness ==
    /\ gather.pc = "done"
    /\ gather.order = [k \in 1..NumTasks |-> NumTasks + 1 - k]
    /\ gather.record[1].product_catalog = <<"product1", "product2">>
    /\ gather.record[1].brand_context = "about text"

(***************************************************************************)
(* The sessions of the HTTPClient instances of the process                 *)
(* (utils/http_client.py:25-33).  The process holds three instances: the   *)
(* client of the route's scraper (api/routes/insights.py:21), the client   *)
(* of the analyzer's scraper and the analyzer's own client                 *)
(* (services/competitor_analyzer.py:15-17).  Each instance opens its own   *)
(* session on its first request, and each session has its own connector.   *)
(***************************************************************************)

\* aiohttp.TCPConnector(limit=10, ...), line 28.
POOL_LIMIT == 10

\* aiohttp.TCPConnector(..., limit_per_host=5), line 28.
POOL_LIMIT_PER_HOST == 5

\* The HTTPClient instances of the process.
Clients == {"scraper.http_client", "competitor_analyzer.scraper.http_client",
            "competitor_analyzer.http_client"}

\* The hosts requests go to.
Hosts == {"a.myshopify.com", "b.myshopify.com"}

\* The connections a connector holds, over all hosts.
OpenOf(conns) == conns["a.myshopify.com"] + conns["b.myshopify.com"]

\* A connector gives a connection to host h while it holds fewer than
\* `limit` connections and fewer than `limit_per_host` to h; the request
\* waits otherwise.
Admits(conns, h) == OpenOf(conns) < POOL_LIMIT /\ conns[h] < POOL_LIMIT_PER_HOST

\* The process after the import of the routes: no session yet.
PoolFrame ==
    [pc |-> "serving",
     session |-> [c \in Clients |-> FALSE],
     conns |-> [c \in Clients |-> [h \in Hosts |-> 0]]]

\* _ensure_session of one instance, lines 25-33: a new session with a new
\* connector when the instance has none.
PoolEnsureSession ==
    /\ pool.pc = "serving"
    /\ \E c \in Clients :
         /\ ~pool.session[c]
         /\ pool' = [pool EXCEPT !.session[c] = TRUE]
    /\ UNCHANGED <<http, pipe, norm, pjson, hero, sim, faq, api,
                   handle, social, links, llm, comp, contact, policy, brand,
                   catalog, gather, store, finder, run>>

\* `async with self.session.get(url)` of a request in flight (lines 43, 67):
\* the connector of the instance's session gives it a connection.
PoolAcquire ==
    /\ pool.pc = "serving"
    /\ \E c \in Clients, h \in Hosts :
         /\ pool.session[c]
         /\ Admits(pool.conns[c], h)
         /\ pool' = [pool EXCEPT !.conns[c][h] = @ + 1]
    /\ UNCHANGED <<http, pipe, norm, pjson, hero, sim, faq, api,
                   handle, social, links, llm, comp, contact, policy, brand,
                   catalog, gather, store, finder, run>>

\* A connection is closed.
PoolRelease ==
    /\ pool.pc = "serving"
    /\ \E c \in Clients, h \in Hosts :
         /\ pool.conns[c][h] > 0
         /\ pool' = [pool EXCEPT !.conns[c][h] = @ - 1]
    /\ UNCHANGED <<http, pipe, norm, pjson, hero, sim, faq, api,
                   handle, social, links, llm, comp, contact, policy, brand,
                   catalog, gather, store, finder, run>>

InitPool ==
    /\ pool = PoolFrame
    /\ http = Idle /\ pipe = Idle /\ norm = Idle /\ pjson = Idle
    /\ hero = Idle /\ sim = Idle /\ faq = Idle /\ api = Idle
    /\ handle = Idle /\ social = Idle /\ links = Idle /\ llm = Idle
    /\ comp = Idle /\ contact = Idle /\ policy = Idle /\ brand = Idle
    /\ catalog = Idle /\ gather = Idle
    /\ store = Idle
    /\ finder = Idle
    /\ run = Idle

NextPool == PoolEnsureSession \/ PoolAcquire \/ PoolRelease

\* The connections of the process, with any number of extractions and
\* analyses in flight.
SpecPool == InitPool /\ [][NextPool]_vars

\* The connections of the process to host h.
ProcessOpenTo(h) ==
    pool.conns["scraper.http_client"][h]
      + pool.conns["competitor_analyzer.scraper.http_client"][h]
      + pool.conns["competitor_analyzer.http_client"][h]

\* C26: at every moment the process holds at most 10 connections, and at
\* most 5 to any one host, summed over all its HTTPClient instances.
C26_CentralPoolLimits ==
    pool.pc = "serving" =>
      /\ ProcessOpenTo("a.myshopify.com") + ProcessOpenTo("b.myshopify.com") <= POOL_LIMIT
      /\ \A h \in Hosts : ProcessOpenTo(h) <= POOL_LIMIT_PER_HOST

\* ------------------------------------------------------------------------
\* The summary of CompetitorAnalyzer.analyze_competitors without enrichment
\* ------------------------------------------------------------------------

\* Is the Optional[str] a non-empty string?
IsBuiltSummary(summary) == summary # <<>> /\ summary # <<"">>

\* C27: with at least one competitor and no enrichment summary, the
\* analysis_summary of the response is the string built by
\* _generate_basic_summary, which returns a non-empty string for every
\* input, with or without competitors.
C27_BasicSummaryReturned ==
    comp.pc = "done" =>
      /\ IsBuiltSummary(_generate_basic_summary(comp.competitors))
      /\ (comp.competitors >= 1 /\ ~IsBuiltSummary(comp.analysis_summary)
            => IsBuiltSummary(comp.summary))

(***************************************************************************)
(* DatabaseService.save_insights, get_recent_insights and                  *)
(* _convert_to_schema (services/database_service.py).                      *)
(*                                                                         *)
(* The store is the table brand_insights, a set of rows; the rows of the   *)
(* seven related tables that belong to a brand are kept in the row of the  *)
(* brand, under the name of the relationship.  A record is what            *)
(* BuildInsights gives.                                                    *)
(***************************************************************************)

\* The eight values of a record: what its task can return for the tasks of
\* `populated`, the default for the others; `policies` is what the policy
\* task returns.
FieldValues(populated, policies) ==
    [i \in 1..NumTasks |->
       IF i \notin populated THEN TaskDefault[i]
       ELSE IF i = 3 THEN policies
       ELSE CHOOSE r \in TaskReturns[i] : TRUE]

\* The records handed to save_insights.
StoreRecords ==
    {BuildInsights(b, HTTPS_PREFIX \o <<"a">>, FieldValues(populated, policies), 0) :
       b \in {None, "Brand"}, populated \in SUBSET (1..NumTasks),
       policies \in TaskReturns[3]}

\* The related rows of a record, as _save_products ... _save_important_links
\* write them (lines 38-44, 211-307).
RelatedRows(insights) ==
    [products |-> insights.product_catalog,
     hero_products |-> insights.hero_products,
     policies |-> [privacy |-> insights.privacy_policy,
                   return |-> insights.return_policy,
                   refund |-> insights.refund_policy,
                   terms |-> insights.terms_of_service],
     faqs |-> insights.faqs,
     social_handles |-> insights.social_handles,
     contact_details |-> insights.contact_details,
     important_links |-> insights.important_links]

\* No related rows: a brand whose related data has been cleared.
NoRelatedRows == RelatedRows(BuildInsights(None, <<>>, TaskDefault, 0))

\* Lines 19-47: the row of insights.website_url is updated (its related
\* rows cleared and written anew) or inserted.
SaveRecord(db, insights, now) ==
    LET existing == {row \in db : row.website_url = insights.website_url}
        created == IF existing = {} THEN now
                   ELSE (CHOOSE row \in existing : TRUE).created_at
    IN  (db \ existing)
        \cup {[website_url |-> insights.website_url,
               brand_name |-> insights.brand_name,
               brand_context |-> insights.brand_context,
               created_at |-> created,
               updated_at |-> now,
               related |-> RelatedRows(insights)]}

\* Lines 308-313: the schema is built from the columns of the brand row
\* alone; every other field takes the default of BrandInsightsSchema.
_convert_to_schema(brand_record) ==
    [BuildInsights(brand_record.brand_name, brand_record.website_url, TaskDefault,
                   brand_record.created_at)
       EXCEPT !.brand_context = brand_record.brand_context]

\* Lines 52-64: the row of the URL updated within the last `hours`,
\* converted; None (<<>>) when there is none.
ReadRecent(db, website_url, now, hours) ==
    LET found == {row \in db : row.website_url = website_url
                                /\ row.updated_at >= now - hours}
    IN  IF found = {} THEN <<>>
        ELSE <<_convert_to_schema(CHOOSE row \in found : TRUE)>>

\* A row stored by an earlier extraction of the same store.
OldRow ==
    [website_url |-> HTTPS_PREFIX \o <<"a">>, brand_name |-> "Old brand",
     brand_context |-> None, created_at |-> 0, updated_at |-> 0,
     related |-> NoRelatedRows]

StoreFrame(insights, db) ==
    [pc |-> "save", insights |-> insights, db |-> db, now |-> 0,
     saved_at |-> 0, read |-> <<>>]

\* save_insights(insights)
StoreSave ==
    /\ store.pc = "save"
    /\ store' = [store EXCEPT !.db = SaveRecord(@, store.insights, store.now),
                              !.saved_at = store.now,
                              !.pc = "saved"]
    /\ UNCHANGED <<http, pipe, norm, pjson, hero, sim, faq, api,
                   handle, social, links, llm, comp, contact, policy, brand,
                   catalog, gather, pool, finder, run>>

\* Time passes.
StoreTick ==
    /\ store.pc \in {"save", "saved"}
    /\ store.now + TickHours <= MaxNow
    /\ store' = [store EXCEPT !.now = @ + TickHours]
    /\ UNCHANGED <<http, pipe, norm, pjson, hero, sim, faq, api,
                   handle, social, links, llm, comp, contact, policy, brand,
                   catalog, gather, pool, finder, run>>

\* get_recent_insights(insights.website_url), as the route calls it
\* (insights.py:45).
StoreRead ==
    /\ store.pc = "saved"
    /\ store' = [store EXCEPT
                   !.read = ReadRecent(store.db, store.insights.website_url,
                                       store.now, FRESH_HOURS),
                   !.pc = "read"]
    /\ UNCHANGED <<http, pipe, norm, pjson, hero, sim, faq, api,
                   handle, social, links, llm, comp, contact, policy, brand,
                   catalog, gather, pool, finder, run>>

InitStore ==
    /\ store \in {StoreFrame(r, db) : r \in StoreRecords, db \in {{}, {OldRow}}}
    /\ http = Idle /\ pipe = Idle /\ norm = Idle /\ pjson = Idle
    /\ hero = Idle /\ sim = Idle /\ faq = Idle /\ api = Idle
    /\ handle = Idle /\ social = Idle /\ links = Idle /\ llm = Idle
    /\ comp = Idle /\ contact = Idle /\ policy = Idle /\ brand = Idle
    /\ catalog = Idle /\ gather = Idle /\ pool = Idle
    /\ finder = Idle
    /\ run = Idle

NextStore == StoreSave \/ StoreTick \/ StoreRead

\* One record saved and read back.
SpecStore == InitStore /\ [][NextStore]_vars

\* C28: a record read back inside the freshness window equals the saved
\* one in brand name, URL, brand context and every collection.
C28_SaveReadRoundTrip ==
    (store.pc = "read" /\ store.now - store.saved_at <= FRESH_HOURS) =>
      /\ store.read # <<>>
      /\ LET got == store.read[1]
             put == store.insights
         IN  /\ got.brand_name = put.brand_name
             /\ got.website_url = put.website_url
             /\ got.brand_context = put.brand_context
             /\ got.product_catalog = put.product_catalog
             /\ got.hero_products = put.hero_products
             /\ got.privacy_policy = put.privacy_policy
             /\ got.return_policy = put.return_policy
             /\ got.refund_policy = put.refund_policy
             /\ got.terms_of_service = put.terms_of_service
             /\ got.faqs = put.faqs
             /\ got.social_handles = put.social_handles
             /\ got.contact_details = put.contact_details
             /\ got.important_links = put.important_links

(***************************************************************************)
(* CompetitorAnalyzer._find_competitors (services/competitor_analyzer.py). *)
(*                                                                         *)
(* A URL is [scheme, netloc], so that urlparse(url).netloc is its netloc.  *)
(* The brand is given by what the function reads of it: the number of      *)
(* search queries _generate_search_queries makes of it and the industry    *)
(* its brand_context names (<<>> when none).                               *)
(***************************************************************************)

Https(netloc) == [scheme |-> "https", netloc |-> netloc]

\* `search_queries[:3]`, line 70.
QUERY_LIMIT == 3

\* `sample_stores[:2]`, line 124, and `stores[:2]`, line 147.
STORES_PER_SEARCH == 2

\* sample_stores, lines 117-123.
sample_stores ==
    <<Https("colourpop.com"), Https("gymshark.com"), Https("allbirds.com"),
      Https("warbyparker.com"), Https("casper.com")>>

\* industry_stores, lines 129-142.
industry_stores ==
    [industry \in {"fashion", "beauty", "fitness"} |->
       CASE industry = "fashion" ->
              <<Https("fashionnova.com"), Https("prettylittlething.com")>>
         [] industry = "beauty" -> <<Https("glossier.com"), Https("rarebeauty.com")>>
         [] industry = "fitness" -> <<Https("lululemon.com"), Https("alo.com")>>]

\* Lines 114-127: the same two stores for every query.
_search_for_competitors(query) == Take(sample_stores, STORES_PER_SEARCH)

\* Lines 128-148.
_find_industry_competitors(industry) ==
    IF industry = <<>> THEN <<>> ELSE Take(industry_stores[industry[1]], STORES_PER_SEARCH)

\* Most queries _generate_search_queries returns: one of the brand context
\* and three of the product types (lines 96-113).
MaxQueries == 4

\* Largest max_competitors asked for (the request allows 1..10).
MaxCompetitorsArg == 3

\* The main brands: one of the sample stores, and another store.
MainBrandUrls == {Https("colourpop.com"), Https("a.myshopify.com")}

FinderFrame(main_brand_url, queries, industry, max_competitors) ==
    [pc |-> "search", main_brand_url |-> main_brand_url, queries |-> queries,
     industry |-> industry, max_competitors |-> max_competitors,
     q |-> 1, competitors |-> <<>>, k |-> 1, valid_competitors |-> <<>>,
     result |-> <<>>]

\* Lines 70-78: one query of search_queries[:3]; the loop ends after the
\* last one or once 2 * max_competitors results are gathered.
FinderSearch ==
    /\ finder.pc = "search"
    /\ finder.q <= Min(finder.queries, QUERY_LIMIT)
    /\ LET competitors == finder.competitors \o _search_for_competitors(finder.q)
       IN  finder' = [finder EXCEPT
                        !.competitors = competitors,
                        !.q = @ + 1,
                        !.pc = IF Len(competitors) >= finder.max_competitors * 2
                                  \/ finder.q = Min(finder.queries, QUERY_LIMIT)
                               THEN "industry" ELSE "search"]
    /\ UNCHANGED <<http, pipe, norm, pjson, hero, sim, faq, api,
                   handle, social, links, llm, comp, contact, policy, brand,
                   catalog, gather, pool, store, run>>

\* Lines 79-82.
FinderIndustry ==
    /\ finder.pc = "industry"
    /\ finder' = [finder EXCEPT
                    !.competitors = @ \o _find_industry_competitors(finder.industry),
                    !.pc = "validate"]
    /\ UNCHANGED <<http, pipe, norm, pjson, hero, sim, faq, api,
                   handle, social, links, llm, comp, contact, policy, brand,
                   catalog, gather, pool, store, run>>

\* Lines 83-90: one URL of `competitors`: skipped when its netloc is that
\* of the main brand, kept when _validate_competitor_url fetches more
\* than 1000 characters from it.
FinderValidate ==
    /\ finder.pc = "validate"
    /\ finder.k <= Len(finder.competitors)
    /\ Len(finder.valid_competitors) < finder.max_competitors
    /\ LET competitor_url == finder.competitors[finder.k] IN
       \E valid \in BOOLEAN :
         finder' = [finder EXCEPT
                      !.valid_competitors =
                         IF competitor_url.netloc # finder.main_brand_url.netloc /\ valid
                         THEN Append(@, competitor_url) ELSE @,
                      !.k = @ + 1]
    /\ UNCHANGED <<http, pipe, norm, pjson, hero, sim, faq, api,
                   handle, social, links, llm, comp, contact, policy, brand,
                   catalog, gather, pool, store, run>>

\* Lines 84-85, 91-92: the list is used up or max_competitors are kept.
FinderReturn ==
    /\ finder.pc = "validate"
    /\ \/ finder.k > Len(finder.competitors)
       \/ Len(finder.valid_competitors) >= finder.max_competitors
    /\ finder' = [finder EXCEPT !.result = finder.valid_competitors, !.pc = "done"]
    /\ UNCHANGED <<http, pipe, norm, pjson, hero, sim, faq, api,
                   handle, social, links, llm, comp, contact, policy, brand,
                   catalog, gather, pool, store, run>>

InitFinder ==
    /\ finder \in {FinderFrame(u, n, i, m) :
                     u \in MainBrandUrls, n \in 1..MaxQueries,
                     i \in {<<>>} \cup {<<x>> : x \in DOMAIN industry_stores},
                     m \in 1..MaxCompetitorsArg}
    /\ http = Idle /\ pipe = Idle /\ norm = Idle /\ pjson = Idle
    /\ hero = Idle /\ sim = Idle /\ faq = Idle /\ api = Idle
    /\ handle = Idle /\ social = Idle /\ links = Idle /\ llm = Idle
    /\ comp = Idle /\ contact = Idle /\ policy = Idle /\ brand = Idle
    /\ catalog = Idle /\ gather = Idle /\ pool = Idle /\ store = Idle
    /\ run = Idle

NextFinder == FinderSearch \/ FinderIndustry \/ FinderValidate \/ FinderReturn

\* One search for competitors, against every outcome of the validations.
SpecFinder == InitFinder /\ [][NextFinder]_vars

\* C29: the list returned has at most max_competitors URLs, none with the
\* netloc of the main brand, and none twice.
C29_CompetitorsBoundedDistinct ==
    finder.pc = "done" =>
      /\ Len(finder.result) <= finder.max_competitors
      /\ \A i \in 1..Len(finder.result) :
           finder.result[i].netloc # finder.main_brand_url.netloc
      /\ \A i, j \in 1..Len(finder.result) :
           finder.result[i] = finder.result[j] => i = j

(***************************************************************************)
(* The course of one ShopifyStoreScraper.extract_insights, by the calls of *)
(* the fetcher and of the processor its tasks make.                        *)
(*                                                                         *)
(* The landing fetch is the fetcher of `http`, attempt by attempt.  In the *)
(* fan-out a step is one call of get_page_content / get_json / the         *)
(* processor that has returned: each makes at most MAX_RETRIES + 1         *)
(* attempts (see SpecFetch).  A task's frame holds the index of its loop;  *)
(* a task that has returned holds none.  The three tasks that await        *)
(* nothing (hero products, social handles, important links) return in      *)
(* their first turn, before any response arrives.  The four policy tasks   *)
(* run the same loop over lists of the same length: `policy_at[k]` is how  *)
(* many of them are about to fetch their k-th path, `policy_at[4]` how     *)
(* many have returned.                                                     *)
(***************************************************************************)

\* The paths of a policy: every list of policy_urls has this length.
PolicyPaths == Len(policy_urls["privacy"])

\* One path more than the list has.
MorePathsLate(i, urls) == i <= Len(urls)

\* `for url in urls`: is there a path after the i-th?
MorePaths(i, urls) == i < Len(urls)

\* A task that has returned.
Returned == [pc |-> "done", i |-> 0]

RunFrame(llm_available) ==
    [pc |-> "start", llm_available |-> llm_available,
     product_catalog |-> Returned, policy_at |-> [k \in 1..(PolicyPaths + 1) |-> 0],
     faqs |-> Returned, contact_details |-> Returned, brand_context |-> Returned,
     catalog_stop |-> "none"]

\* scraper.py:36-37.
RunStart ==
    /\ run.pc = "start"
    /\ run' = [run EXCEPT !.pc = "fetch"]
    /\ http' = HttpFrame("page", <<>>)
    /\ UNCHANGED <<pipe, norm, pjson, hero, sim, faq, api,
                   handle, social, links, llm, comp, contact, policy, brand,
                   catalog, gather, pool, store, finder>>

\* scraper.py:37-50: the landing fetch has returned; without a page the
\* parse raises, with one the eight tasks are started.
RunLanding ==
    /\ run.pc = "fetch"
    /\ http.pc = "done"
    /\ run' = IF LandingParses(http.result)
              THEN [run EXCEPT
                      !.pc = "fanout",
                      !.product_catalog = [pc |-> "page", i |-> 1],
                      !.policy_at = [k \in 1..(PolicyPaths + 1) |->
                                       IF k = 1 THEN Cardinality(PolicyTypes) ELSE 0],
                      !.faqs = [pc |-> "loop", i |-> 1],
                      !.contact_details = [pc |-> "fetch", i |-> 1],
                      !.brand_context = [pc |-> "about", i |-> 1]]
              ELSE [run EXCEPT !.pc = "failed"]
    /\ http' = Idle
    /\ UNCHANGED <<pipe, norm, pjson, hero, sim, faq, api,
                   handle, social, links, llm, comp, contact, policy, brand,
                   catalog, gather, pool, store, finder>>

\* extractors.py:38-63: get_json has returned for the page; a full page
\* leads to the next one unless the ceiling is passed.
RunCatalogPage ==
    /\ run.pc = "fanout"
    /\ run.product_catalog.pc = "page"
    /\ run' \in
         {IF kind = "full" /\ ~PastCeiling(run.product_catalog.i + 1)
          THEN [run EXCEPT !.product_catalog.i = @ + 1]
          ELSE [run EXCEPT !.product_catalog = Returned,
                           !.catalog_stop = IF kind = "full" THEN "ceiling"
                                            ELSE "site"] : kind \in PageKinds}
    /\ UNCHANGED <<http, pipe, norm, pjson, hero, sim, faq, api,
                   handle, social, links, llm, comp, contact, policy, brand,
                   catalog, gather, pool, store, finder>>

\* extractors.py:242-282: get_page_content has returned for the k-th path
\* of one policy; the policy returns when the text is long enough or the
\* paths are used up.
RunPolicyPath ==
    /\ run.pc = "fanout"
    /\ \E k \in 1..PolicyPaths :
         /\ run.policy_at[k] > 0
         /\ run' \in
              {LET next == IF found \/ ~MorePaths(k, policy_urls["privacy"])
                           THEN PolicyPaths + 1 ELSE k + 1
               IN  [run EXCEPT !.policy_at[k] = @ - 1,
                               !.policy_at[next] = @ + 1] : found \in BOOLEAN}
    /\ UNCHANGED <<http, pipe, norm, pjson, hero, sim, faq, api,
                   handle, social, links, llm, comp, contact, policy, brand,
                   catalog, gather, pool, store, finder>>

\* extractors.py:306-327: get_page_content has returned for a path of
\* faq_urls; FAQs found end the loop and go to the processor when there is
\* one.
RunFaqPath ==
    /\ run.pc = "fanout"
    /\ run.faqs.pc = "loop"
    /\ \E found \in BOOLEAN :
         run' = IF found
                THEN [run EXCEPT !.faqs = IF run.llm_available
                                          THEN [pc |-> "enrich", i |-> 0]
                                          ELSE Returned]
                ELSE IF MorePaths(run.faqs.i, faq_urls)
                THEN [run EXCEPT !.faqs.i = @ + 1]
                ELSE [run EXCEPT !.faqs = Returned]
    /\ UNCHANGED <<http, pipe, norm, pjson, hero, sim, faq, api,
                   handle, social, links, llm, comp, contact, policy, brand,
                   catalog, gather, pool, store, finder>>

\* extractors.py:324-327: structure_faqs has returned.
RunFaqEnrich ==
    /\ run.pc = "fanout"
    /\ run.faqs.pc = "enrich"
    /\ run' = [run EXCEPT !.faqs = Returned]
    /\ UNCHANGED <<http, pipe, norm, pjson, hero, sim, faq, api,
                   handle, social, links, llm, comp, contact, policy, brand,
                   catalog, gather, pool, store, finder>>

\* extractors.py:422-444: get_page_content has returned for /pages/contact.
RunContact ==
    /\ run.pc = "fanout"
    /\ run.contact_details.pc = "fetch"
    /\ run' = [run EXCEPT !.contact_details = Returned]
    /\ UNCHANGED <<http, pipe, norm, pjson, hero, sim, faq, api,
                   handle, social, links, llm, comp, contact, policy, brand,
                   catalog, gather, pool, store, finder>>

\* extractors.py:500-544: get_page_content has returned for a path of
\* about_urls; a text found goes to the processor when there is one; after
\* the last path the landing page is used, without a fetch.
RunBrandPath ==
    /\ run.pc = "fanout"
    /\ run.brand_context.pc = "about"
    /\ \E found \in BOOLEAN :
         run' = IF found
                THEN [run EXCEPT !.brand_context = IF run.llm_available
                                                   THEN [pc |-> "enrich", i |-> 0]
                                                   ELSE Returned]
                ELSE IF MorePaths(run.brand_context.i, about_urls)
                THEN [run EXCEPT !.brand_context.i = @ + 1]
                ELSE [run EXCEPT !.brand_context = Returned]
    /\ UNCHANGED <<http, pipe, norm, pjson, hero, sim, faq, api,
                   handle, social, links, llm, comp, contact, policy, brand,
                   catalog, gather, pool, store, finder>>

\* extractors.py:521-522: extract_brand_context of the processor has
\* returned.
RunBrandEnrich ==
    /\ run.pc = "fanout"
    /\ run.brand_context.pc = "enrich"
    /\ run' = [run EXCEPT !.brand_context = Returned]
    /\ UNCHANGED <<http, pipe, norm, pjson, hero, sim, faq, api,
                   handle, social, links, llm, comp, contact, policy, brand,
                   catalog, gather, pool, store, finder>>

\* Has every task returned?
AllReturned(r) ==
    /\ r.product_catalog = Returned
    /\ r.policy_at[PolicyPaths + 1] = Cardinality(PolicyTypes)
    /\ r.faqs = Returned
    /\ r.contact_details = Returned
    /\ r.brand_context = Returned

\* scraper.py:50-78: gather returns and the record is built.
RunMerge ==
    /\ run.pc = "fanout"
    /\ AllReturned(run)
    /\ run' = [run EXCEPT !.pc = "done"]
    /\ UNCHANGED <<http, pipe, norm, pjson, hero, sim, faq, api,
                   handle, social, links, llm, comp, contact, policy, brand,
                   catalog, gather, pool, store, finder>>

InitRun ==
    /\ run \in {RunFrame(a) : a \in BOOLEAN}
    /\ http = Idle /\ pipe = Idle /\ norm = Idle /\ pjson = Idle
    /\ hero = Idle /\ sim = Idle /\ faq = Idle /\ api = Idle
    /\ handle = Idle /\ social = Idle /\ links = Idle /\ llm = Idle
    /\ comp = Idle /\ contact = Idle /\ policy = Idle /\ brand = Idle
    /\ catalog = Idle /\ gather = Idle /\ pool = Idle /\ store = Idle
    /\ finder = Idle

NextRun ==
    \/ RunStart
    \/ HttpCall
    \/ HttpAttempt
    \/ HttpBackoff
    \/ RunLanding
    \/ RunCatalogPage
    \/ RunPolicyPath
    \/ RunFaqPath
    \/ RunFaqEnrich
    \/ RunContact
    \/ RunBrandPath
    \/ RunBrandEnrich
    \/ RunMerge

\* One extraction against every behaviour of the site and of the client.
\* Every attempt and every call of the processor completes (the attempts
\* by the session's total timeout), and the event loop runs a coroutine
\* whose await has completed: a step that can be taken is taken.
SpecRun == InitRun /\ [][NextRun]_vars /\ WF_vars(NextRun)

\* Every loop of the extraction is within its range: the attempts of the
\* landing fetch, the pages of the catalog, the paths of the policies, of
\* the FAQs and of the brand context.
RunWithinBounds ==
    /\ http # Idle => http.attempt <= MAX_RETRIES /\ Len(http.log) <= MAX_RETRIES + 1
    /\ run.product_catalog.i <= PAGE_CEILING
    /\ \A k \in 1..(PolicyPaths + 1) : run.policy_at[k] \in 0..Cardinality(PolicyTypes)
    /\ run.faqs.i <= Len(faq_urls)
    /\ run.brand_context.i <= Len(about_urls)

\* The extraction has returned a record or raised the fatal error.
RunFinished == run.pc \in {"done", "failed"}

\* C30: provided every attempt and every call of the processor completes,
\* every extraction finishes, with a record or with the fatal error,
\* whatever the site answers, a catalog that never answers an empty page
\* included; and the calls of the fetcher it makes are bounded: each loop
\* stays within its range.
C30_ExtractionTerminates == []RunWithinBounds /\ <>RunFinished

\* An extraction has returned its record although the catalog answered a
\* full page every time: the ceiling stopped it.
C30_Witness ==
    /\ run.pc = "done"
    /\ run.catalog_stop = "ceiling"

====
